---- MODULE Spec2Model ----
(***************************************************************************)
(* Model of chilakos/MyAgent.                                              *)
(*  - The conversation store of src/src/core/memory.py (class              *)
(*    ConversationManager over the SQLite table `conversations`), with its *)
(*    message encoding (json.dumps of _message_to_dict, json.loads +       *)
(*    _deserialize_messages) and the UTC wall-clock timestamps written     *)
(*    with datetime.isoformat().                                           *)
(*  - The habit log of the same class (table `habit_logs`) and its         *)
(*    statistics.                                                          *)
(*  - The LLM providers of src/src/core/llm.py and their factory.          *)
(*  - The PDF agent of src/src/agents/pdf_agent.py over the files of its   *)
(*    workspace directory.                                                 *)
(***************************************************************************)
EXTENDS Integers, Sequences, FiniteSets, TLC

VARIABLES
    conversations,  \* table `conversations`: primary key id -> row
    issued,         \* ids uuid.uuid4() has handed out so far
    clock,          \* the UTC wall clock, in ticks
    call,           \* the last call made on the manager, with its arguments
    ret,            \* what that call returned or raised
    writes,         \* number of create/save/delete calls made so far
    input,          \* the message list a run of the codec specification stores
    habit_logs,     \* table `habit_logs`: primary key id -> row
    provider,       \* the LLMProvider instance the caller holds, if any
    trace,          \* the methods called on that instance so far, in order
    inits,          \* executions of its initialize method so far
    constructed,    \* backend clients constructed for it so far
    invocations,    \* calls of invoke on its clients so far
    invoked,        \* the last such call: the client, the arguments, the outcome
    files,          \* the file system: location of a file -> what it holds
    pdf_calls       \* calls made on the PDF agent so far

\* The manager's variables, the provider's and the PDF agent's.
storeVars == <<conversations, issued, clock, writes, input, habit_logs>>
llmVars == <<provider, trace, inits, constructed, invocations, invoked>>
pdfVars == <<files, pdf_calls>>

vars == <<conversations, issued, clock, call, ret, writes, input, habit_logs,
          provider, trace, inits, constructed, invocations, invoked,
          files, pdf_calls>>

-----------------------------------------------------------------------------
(* Bounds of the model.                                                    *)

MaxIds == 3          \* ids uuid4 can hand out
MaxClock == 2        \* the clock stops ticking here
MaxWrites == 3       \* create/save/delete calls in one run
MaxContentLen == 2   \* characters per message content (codec specification)
MaxDays == 2         \* days the clock runs on (habit specification)
MaxCalls == 3        \* method calls on one provider instance

Ids == 1..MaxIds

-----------------------------------------------------------------------------
(* Python values.                                                          *)

\* Python's None / SQL NULL, distinct from every string of the model.
None == "<None>"

\* `x is not None` in the place of bool(x).
IsNotNone(x) == x # None

\* bool(x) for an Optional[str]: None and "" are falsy.
Truthy(x) == x # None /\ x # ""

Min(a, b) == IF a <= b THEN a ELSE b
Max(a, b) == IF a >= b THEN a ELSE b

\* class ConversationType(str, Enum): the values the model uses.
ConversationTypes == {"daily_checkin", "general"}

\* conv_type.value if isinstance(conv_type, ConversationType) else str(conv_type)
conv_type_val(conv_type) == conv_type

-----------------------------------------------------------------------------
(* Timestamps: datetime.utcnow().isoformat().                              *)
(* A tick is half a second: isoformat() prints the seconds field, and the  *)
(* fraction only when it is not zero; the text is a sequence of fixed-width *)
(* numeric fields, so it is modelled as the sequence of their values.      *)

TicksPerSecond == 2

utcnow == clock

isoformat(t) ==
    IF t % TicksPerSecond = 0
    THEN <<t \div TicksPerSecond>>
    ELSE <<t \div TicksPerSecond, t % TicksPerSecond>>

\* Text comparison (Python str < and SQLite's BINARY collation): the first
\* differing field decides, and a proper prefix is smaller.
TextLess(a, b) ==
    \E k \in 1..(Min(Len(a), Len(b)) + 1) :
        /\ \A j \in 1..(k - 1) : a[j] = b[j]
        /\ \/ k > Len(a) /\ k <= Len(b)
           \/ k <= Len(a) /\ k <= Len(b) /\ a[k] < b[k]

TextLeq(a, b) == a = b \/ TextLess(a, b)

-----------------------------------------------------------------------------
(* Messages and their JSON encoding.                                       *)
(* A content is a sequence of characters; the characters that json.dumps   *)
(* escapes are named: LF (newline), QUOTE ("), BSLASH (\), EACUTE (a       *)
(* non-ASCII character, U+00E9).                                           *)

Chars == {"n", "LF", "QUOTE", "BSLASH", "EACUTE"}

HumanMessage(content) == [cls |-> "HumanMessage", content |-> content]
AIMessage(content) == [cls |-> "AIMessage", content |-> content]
SystemMessage(content) == [cls |-> "SystemMessage", content |-> content]

\* Text of a class name or tag made of plain letters: one character per name.
Str(s) == <<s>>

\* json.dumps of one character (ensure_ascii=True).
JsonEscapeChar(c) ==
    CASE c = "LF" -> <<"BSLASH", "n">>
      [] c = "QUOTE" -> <<"BSLASH", "QUOTE">>
      [] c = "BSLASH" -> <<"BSLASH", "BSLASH">>
      [] c = "EACUTE" -> <<"BSLASH", "u", "0", "0", "e", "9">>
      [] OTHER -> <<c>>

RECURSIVE JsonEscape(_)
JsonEscape(s) ==
    IF s = <<>> THEN <<>> ELSE JsonEscapeChar(Head(s)) \o JsonEscape(Tail(s))

\* json.dumps of a str: the escaped characters between two quotes.
JsonDumpsStr(s) == <<"QUOTE">> \o JsonEscape(s) \o <<"QUOTE">>

\* json.loads of a str literal: scan from position i to the closing quote.
RECURSIVE JsonScan(_, _)
JsonScan(t, i) ==
    IF i > Len(t) \/ t[i] = "QUOTE" THEN <<>>
    ELSE IF t[i] = "BSLASH" THEN
        IF i + 1 > Len(t) THEN <<>>
        ELSE IF t[i + 1] = "n" THEN <<"LF">> \o JsonScan(t, i + 2)
        ELSE IF t[i + 1] = "u" THEN
            (IF i + 5 <= Len(t) /\ SubSeq(t, i + 2, i + 5) = <<"0", "0", "e", "9">>
             THEN <<"EACUTE">> ELSE <<"?">>) \o JsonScan(t, i + 6)
        ELSE <<t[i + 1]>> \o JsonScan(t, i + 2)
    ELSE <<t[i]>> \o JsonScan(t, i + 1)

JsonLoadsStr(t) == JsonScan(t, 2)

_message_to_dict(message) ==
    [type |-> message.cls, content |-> message.content]

\* json.dumps([...]): the array is kept as a sequence of objects, every
\* string in it as its JSON text.
json_dumps(dicts) ==
    [k \in 1..Len(dicts) |->
        [type |-> JsonDumpsStr(Str(dicts[k].type)),
         content |-> JsonDumpsStr(dicts[k].content)]]

json_loads(text) ==
    [k \in 1..Len(text) |->
        [type |-> JsonLoadsStr(text[k].type),
         content |-> JsonLoadsStr(text[k].content)]]

\* json.dumps([self._message_to_dict(msg) for msg in messages])
messages_json(messages) ==
    json_dumps([k \in 1..Len(messages) |-> _message_to_dict(messages[k])])

\* _deserialize_messages with an else branch that keeps every other entry
\* as a HumanMessage.
RECURSIVE _deserialize_messagesKeepOthers(_)
_deserialize_messagesKeepOthers(data) ==
    IF data = <<>> THEN <<>>
    ELSE LET item == Head(data)
             rest == _deserialize_messagesKeepOthers(Tail(data))
         IN  IF item.type = Str("AIMessage")
             THEN <<AIMessage(item.content)>> \o rest
             ELSE <<HumanMessage(item.content)>> \o rest

RECURSIVE _deserialize_messages(_)
_deserialize_messages(data) ==
    IF data = <<>> THEN <<>>
    ELSE LET item == Head(data)
             rest == _deserialize_messages(Tail(data))
         IN  IF item.type = Str("HumanMessage")
             THEN <<HumanMessage(item.content)>> \o rest
             ELSE IF item.type = Str("AIMessage")
             THEN <<AIMessage(item.content)>> \o rest
             ELSE rest

\* The metadata column holds the text "{}"; json.loads gives the empty dict.
EmptyDict == <<>>
json_loads_metadata(text) == IF text = "{}" THEN EmptyDict ELSE <<"?">>

-----------------------------------------------------------------------------
(* Return values: every call's result is a record tagged with its kind.    *)

RetNone == [kind |-> "None"]
RetBool(b) == [kind |-> "bool", val |-> b]
RetStr(s) == [kind |-> "str", val |-> s]
RetRaise(e) == [kind |-> "raise", error |-> e]
RetList(l) == [kind |-> "list", val |-> l]

-----------------------------------------------------------------------------
(* The table.                                                              *)

Insert(table, row) ==
    [i \in DOMAIN table \cup {row.id} |-> IF i = row.id THEN row ELSE table[i]]

\* Delete without the commit: the row stays.
DeleteUncommitted(table, id) == table

\* DELETE FROM conversations WHERE id = ?
Delete(table, id) == [i \in DOMAIN table \ {id} |-> table[i]]

\* rowcount taken for the number of rows of the table.
rowcountOfTable(table, id) == Cardinality(DOMAIN table) + 1

\* cursor.rowcount of that DELETE: the number of rows it removed.
rowcount(table, id) == Cardinality(DOMAIN table \cap {id})

\* SELECT ... FROM conversations WHERE id = ? ; the dict load_conversation builds.
LoadResult(table, conv_id) ==
    IF conv_id \notin DOMAIN table THEN RetNone
    ELSE LET row == table[conv_id]
         IN  [kind |-> "conv",
              id |-> row.id,
              type |-> row.type,
              title |-> row.title,
              created_at |-> row.created_at,
              updated_at |-> row.updated_at,
              messages |-> _deserialize_messages(json_loads(row.messages)),
              metadata |-> json_loads_metadata(row.metadata)]

-----------------------------------------------------------------------------
(* The manager after construction: _init_db has created an empty table.   *)
(* No provider has been made yet. The PDF agent has made its workspace.    *)

NoProvider == [cls |-> "NoneType"]
NoClient == [cls |-> "NoneType"]
NotInvoked == [client |-> NoClient]

InitLLM ==
    /\ provider = NoProvider
    /\ trace = <<>>
    /\ inits = 0
    /\ constructed = 0
    /\ invocations = 0
    /\ invoked = NotInvoked

\* The files the PDF agent works on. A text that names a file is a sequence
\* of tokens: "/" is the path separator, and a last token that starts with
\* "." is the suffix of the name. A location is the sequence of names from
\* the root directory.
Sep == "/"
temp_workspace == <<Sep, "tmp", Sep, "ws">>
sample_pdf_1 == temp_workspace \o <<Sep, "sample1", ".pdf">>
sample_pdf_2 == temp_workspace \o <<Sep, "sample2", ".pdf">>

\* The directories: the root, the directory of temporary files, the
\* workspace made in it by PDFAgent.__init__, and the working directory.
TmpDir == << <<"tmp">> >>
WorkspaceDir == << <<"tmp">>, <<"ws">> >>
Cwd == << <<"repo">> >>
Dirs == {<<>>, TmpDir, WorkspaceDir, Cwd}

\* A PDF file holds pages; a page is known by the file it was first made in
\* and its number there, and has a rotation (/Rotate).
BlankPage(origin, number) ==
    [origin |-> origin, number |-> number, rotate |-> 0, text |-> <<>>]
BlankPdf(origin, n) ==
    [kind |-> "pdf", pages |-> [k \in 1..n |-> BlankPage(origin, k)]]
SamplePages1 == 2
SamplePages2 == 3

\* The agent after construction, with the sample files of the tests in its
\* workspace.
InitPDF ==
    /\ files = (WorkspaceDir \o << <<"sample1", ".pdf">> >> :> BlankPdf("sample1", SamplePages1))
                   @@ (WorkspaceDir \o << <<"sample2", ".pdf">> >> :> BlankPdf("sample2", SamplePages2))
    /\ pdf_calls = 0

Init ==
    /\ conversations = <<>>
    /\ issued = {}
    /\ clock = 0
    /\ call = [op |-> "init"]
    /\ ret = RetNone
    /\ writes = 0
    /\ input = <<>>
    /\ habit_logs = <<>>
    /\ InitLLM
    /\ InitPDF

Tick ==
    /\ clock < MaxClock
    /\ clock' = clock + 1
    /\ UNCHANGED <<conversations, issued, call, ret, writes, input, habit_logs, llmVars, pdfVars>>

\* uuid.uuid4(): an id never handed out before. Ids are opaque to the
\* program, so they are numbered in the order uuid4 hands them out.
uuid4 == Cardinality(issued) + 1

\* NewRow with updated_at left NULL until the first save.
NewRowNoUpdatedAt(conv_id, type, title, now, text) ==
    [id |-> conv_id,
     type |-> type,
     title |-> title,
     created_at |-> now,
     updated_at |-> <<>>,
     messages |-> text,
     metadata |-> "{}"]

\* INSERT INTO conversations (id, type, title, created_at, updated_at,
\* messages, metadata) VALUES (conv_id, type, title, now, now, text, "{}")
NewRow(conv_id, type, title, now, text) ==
    [id |-> conv_id,
     type |-> type,
     title |-> title,
     created_at |-> now,
     updated_at |-> now,
     messages |-> text,
     metadata |-> "{}"]

\* create_conversation: uuid.uuid4() is an id never handed out before;
\* `messages or []` makes an omitted list the empty list, written <<>> here.
create_conversation(conv_type, title, messages) ==
    \E conv_id \in {uuid4} \cap Ids :
        LET now == isoformat(utcnow)
            row == NewRow(conv_id, conv_type_val(conv_type), title, now,
                          messages_json(messages))
        IN  /\ writes < MaxWrites
            /\ conversations' = Insert(conversations, row)
            /\ issued' = issued \cup {conv_id}
            /\ call' = [op |-> "create_conversation", conv_type |-> conv_type,
                        title |-> title, messages |-> messages]
            /\ ret' = RetStr(conv_id)
            /\ writes' = writes + 1
            /\ UNCHANGED <<clock, input, habit_logs, llmVars, pdfVars>>

\* UpdateRow with updated_at left out of the statement that sets no title.
UpdateRowNoBump(row, text, now, title) ==
    IF Truthy(title)
    THEN [row EXCEPT !.messages = text, !.updated_at = now, !.title = title]
    ELSE [row EXCEPT !.messages = text]

\* UpdateRow with the one statement that always sets the title.
UpdateRowTitleAlways(row, text, now, title) ==
    [row EXCEPT !.messages = text, !.updated_at = now, !.title = title]

\* The UPDATE statements of save_conversation, for a row that exists.
UpdateRow(row, text, now, title) ==
    IF Truthy(title)
    THEN [row EXCEPT !.messages = text, !.updated_at = now, !.title = title]
    ELSE [row EXCEPT !.messages = text, !.updated_at = now]

\* Update without the WHERE clause.
UpdateEveryRow(table, conv_id, text, now, title) ==
    [j \in DOMAIN table |-> UpdateRow(table[j], text, now, title)]

\* UPDATE conversations SET ... WHERE id = ?
Update(table, conv_id, text, now, title) ==
    [table EXCEPT ![conv_id] = UpdateRow(@, text, now, title)]

\* save_conversation: the else branch reads the name conv_type, which is
\* neither a parameter nor a global of the module: Python raises NameError
\* before the INSERT, and the connection's context manager rolls back.
save_conversation(conv_id, messages, title) ==
    LET now == isoformat(utcnow)
        text == messages_json(messages)
        exists == conv_id \in DOMAIN conversations
    IN  /\ writes < MaxWrites
        /\ call' = [op |-> "save_conversation", conv_id |-> conv_id,
                    messages |-> messages, title |-> title]
        /\ IF exists
           THEN /\ conversations' = Update(conversations, conv_id, text, now, title)
                /\ ret' = RetNone
           ELSE /\ conversations' = conversations
                /\ ret' = RetRaise("NameError")
        /\ writes' = writes + 1
        /\ UNCHANGED <<issued, clock, input, habit_logs, llmVars, pdfVars>>

load_conversation(conv_id) ==
    /\ call' = [op |-> "load_conversation", conv_id |-> conv_id]
    /\ ret' = LoadResult(conversations, conv_id)
    /\ UNCHANGED <<conversations, issued, clock, writes, input, habit_logs, llmVars, pdfVars>>

\* Matching with the filter dropped.
MatchingAll(table, conv_type) == DOMAIN table

\* The WHERE clause of list_conversations: no filter when conv_type is falsy.
Matching(table, conv_type) ==
    IF Truthy(conv_type)
    THEN {i \in DOMAIN table : table[i].type = conv_type_val(conv_type)}
    ELSE DOMAIN table

\* Orderings with ORDER BY created_at ASC.
RECURSIVE OrderingsAscending(_, _)
OrderingsAscending(table, S) ==
    IF S = {} THEN {<<>>}
    ELSE UNION {{<<i>> \o o : o \in OrderingsAscending(table, S \ {i})} :
                   i \in {i \in S : \A j \in S :
                              TextLeq(table[i].created_at, table[j].created_at)}}

\* ORDER BY created_at DESC: every order of the rows in which created_at
\* never increases (a row with the greatest created_at, then the rest in
\* such an order); rows with equal created_at come in an order SQL leaves open.
RECURSIVE Orderings(_, _)
Orderings(table, S) ==
    IF S = {} THEN {<<>>}
    ELSE UNION {{<<i>> \o o : o \in Orderings(table, S \ {i})} :
                   i \in {i \in S : \A j \in S :
                              TextLeq(table[j].created_at, table[i].created_at)}}

\* LimitOffset with the OFFSET clause left out.
LimitNoOffset(o, limit, offset) == SubSeq(o, 1, Min(Len(o), limit))

\* LIMIT ? OFFSET ? (limit >= 0 and offset >= 0).
LimitOffset(o, limit, offset) ==
    SubSeq(o, offset + 1, Min(Len(o), offset + limit))

Summary(row) ==
    [id |-> row.id, type |-> row.type, title |-> row.title,
     created_at |-> row.created_at, updated_at |-> row.updated_at]

list_conversations(conv_type, limit, offset) ==
    \E rows \in {LimitOffset(o, limit, offset) :
                     o \in Orderings(conversations, Matching(conversations, conv_type))} :
            /\ call' = [op |-> "list_conversations", conv_type |-> conv_type,
                        limit |-> limit, offset |-> offset]
            /\ ret' = RetList([k \in 1..Len(rows) |-> Summary(conversations[rows[k]])])
            /\ UNCHANGED <<conversations, issued, clock, writes, input, habit_logs, llmVars, pdfVars>>

\* get_latest_conversation without the ORDER BY: any one of the rows selected.
get_latest_conversationUnordered(conv_type) ==
    \E rows \in {<<>>} \cup {<<i>> : i \in Matching(conversations, conv_type)} :
            /\ rows = <<>> => Matching(conversations, conv_type) = {}
            /\ call' = [op |-> "get_latest_conversation", conv_type |-> conv_type]
            /\ ret' = IF rows = <<>> THEN RetNone
                      ELSE LoadResult(conversations, rows[1])
            /\ UNCHANGED <<conversations, issued, clock, writes, input, habit_logs, llmVars, pdfVars>>

\* get_latest_conversation: the same WHERE and ORDER BY with LIMIT 1, and the
\* dict of the full record (the one load_conversation builds) for the row
\* fetched, None when fetchone() returns no row.
get_latest_conversation(conv_type) ==
    \E rows \in {LimitOffset(o, 1, 0) :
                     o \in Orderings(conversations, Matching(conversations, conv_type))} :
            /\ call' = [op |-> "get_latest_conversation", conv_type |-> conv_type]
            /\ ret' = IF rows = <<>> THEN RetNone
                      ELSE LoadResult(conversations, rows[1])
            /\ UNCHANGED <<conversations, issued, clock, writes, input, habit_logs, llmVars, pdfVars>>

\* delete_conversation: return cursor.rowcount > 0
delete_conversation(conv_id) ==
    /\ writes < MaxWrites
    /\ call' = [op |-> "delete_conversation", conv_id |-> conv_id]
    /\ conversations' = Delete(conversations, conv_id)
    /\ ret' = RetBool(rowcount(conversations, conv_id) > 0)
    /\ writes' = writes + 1
    /\ UNCHANGED <<issued, clock, input, habit_logs, llmVars, pdfVars>>

-----------------------------------------------------------------------------
(* Arguments the calls are made with.                                      *)

\* Callers pass the ids handed out so far and one id never handed out (the
\* calls treat every id without a record alike).
IdArgs == {i \in Ids : i <= Cardinality(issued) + 1}
TypeArgs == ConversationTypes
SaveTitleArgs == {None, "", "B"}
\* create_conversation with its defaults (no title, no messages) and with both.
CreateArgs ==
    { [title |-> None, messages |-> <<>>],
      [title |-> "A", messages |-> <<HumanMessage(<<"n">>)>>] }
SaveMessageArgs == { <<HumanMessage(<<"LF">>), AIMessage(<<>>)>> }
DefaultLimit == 10
LimitArgs == {1, DefaultLimit}
OffsetArgs == {0, 1}

(* Writing and reading back: create, save and load.                        *)
NextSave ==
    \/ Tick
    \/ \E t \in TypeArgs, a \in CreateArgs :
           create_conversation(t, a.title, a.messages)
    \/ \E i \in IdArgs, m \in SaveMessageArgs, ti \in SaveTitleArgs :
           save_conversation(i, m, ti)
    \/ \E i \in IdArgs : load_conversation(i)

SpecSave == Init /\ [][NextSave]_vars

(* Listing and deleting: the rows differ in type and created_at; save is   *)
(* called with one message list and one title.                             *)
NextList ==
    \/ Tick
    \/ \E t \in TypeArgs : create_conversation(t, None, <<>>)
    \/ \E i \in IdArgs : save_conversation(i, <<AIMessage(<<"n">>)>>, "B")
    \/ \E i \in IdArgs : load_conversation(i)
    \/ \E t \in TypeArgs \cup {None}, l \in LimitArgs, o \in OffsetArgs :
           list_conversations(t, l, o)
    \/ \E i \in IdArgs : delete_conversation(i)

SpecList == Init /\ [][NextList]_vars

(* Paging and the latest record: the table is listed page by page, with    *)
(* pages of PageSizes records at the offsets 0, k, 2k, ...                 *)
PageSizes == {1, 2}
PageOffsets(k) == {p * k : p \in 0..(MaxIds - 1)}

NextPage ==
    \/ Tick
    \/ \E t \in TypeArgs : create_conversation(t, None, <<>>)
    \/ \E t \in TypeArgs \cup {None}, k \in PageSizes :
           \E o \in PageOffsets(k) : list_conversations(t, k, o)
    \/ \E t \in TypeArgs \cup {None} : get_latest_conversation(t)
    \/ \E i \in IdArgs : delete_conversation(i)

SpecPage == Init /\ [][NextPage]_vars

(* The message codec: a run stores one message list, drawn at the start,   *)
(* with create_conversation or save_conversation and loads it back. One    *)
(* message is drawn with every content up to MaxContentLen characters;     *)
(* lists of up to two messages are drawn over the contents of at most one  *)
(* character (json.dumps encodes the messages of a list one by one).       *)
Contents(n) == UNION {[1..k -> Chars] : k \in 0..n}
Classes == {"HumanMessage", "AIMessage", "SystemMessage"}
Messages(n) == [cls : Classes, content : Contents(n)]
CodecInputs ==
    {<<m>> : m \in Messages(MaxContentLen)}
        \cup {<<>>}
        \cup {<<m1, m2>> : m1 \in Messages(1), m2 \in Messages(1)}

InitCodec ==
    /\ conversations = <<>>
    /\ issued = {}
    /\ clock = 0
    /\ call = [op |-> "init"]
    /\ ret = RetNone
    /\ writes = 0
    /\ input \in CodecInputs
    /\ habit_logs = <<>>
    /\ InitLLM
    /\ InitPDF

NextCodec ==
    \/ create_conversation("general", None, input)
    \/ \E i \in IdArgs : save_conversation(i, input, None)
    \/ \E i \in IdArgs : load_conversation(i)

SpecCodec == InitCodec /\ [][NextCodec]_vars

-----------------------------------------------------------------------------
(* The habit log: table `habit_logs`, written by log_habit only.           *)

\* Habit ids of HabitTracker.HABITS the model uses.
HabitIds == {"workout", "reading"}

\* Dates. A date is the number of days since the day the run starts, which
\* is taken to be 30 January, so that the days of a run cross a month's end.
SecondsPerDay == 86400
TicksPerDay == SecondsPerDay * TicksPerSecond
FirstDay == 30
DaysInJanuary == 31

\* datetime.utcnow().date()
date(t) == t \div TicksPerDay

\* strftime("%Y-%m-%d") and date.isoformat(): fixed-width numeric fields,
\* modelled as the sequence of their values (the year is the same all along).
strftime(d) ==
    LET n == FirstDay + d
    IN  IF n <= DaysInJanuary THEN <<1, n>> ELSE <<2, n - DaysInJanuary>>

\* logged_date omitted (None).
NoDate == <<>>

\* sqlite3 stores a Python bool in the BOOLEAN column as the integer 1 or 0.
AdaptBool(b) == IF b THEN 1 ELSE 0

\* bool(x) of a column value.
Bool(x) == x # 0

\* Midnight UTC: the clock moves to the start of the next day.
Midnight ==
    /\ date(clock) < MaxDays
    /\ clock' = (date(clock) + 1) * TicksPerDay
    /\ UNCHANGED <<conversations, issued, call, ret, writes, input, habit_logs, llmVars, pdfVars>>

\* log_habit as INSERT OR REPLACE on (habit_id, logged_date): the rows of the
\* habit and the date make way for the new one.
log_habitReplace(habit_id, completed, logged_date, notes) ==
    \E log_id \in {uuid4} \cap Ids :
        LET day == IF logged_date = NoDate THEN strftime(date(utcnow))
                   ELSE logged_date
            row == [id |-> log_id,
                    habit_id |-> habit_id,
                    logged_date |-> day,
                    completed |-> AdaptBool(completed),
                    notes |-> notes,
                    created_at |-> isoformat(utcnow)]
            kept == {i \in DOMAIN habit_logs :
                        ~(/\ habit_logs[i].habit_id = habit_id
                          /\ habit_logs[i].logged_date = day)}
        IN  /\ habit_logs' = Insert([i \in kept |-> habit_logs[i]], row)
            /\ issued' = issued \cup {log_id}
            /\ call' = [op |-> "log_habit", habit_id |-> habit_id,
                        completed |-> completed, logged_date |-> logged_date,
                        notes |-> notes]
            /\ ret' = RetStr(log_id)
            /\ UNCHANGED <<conversations, clock, writes, input, llmVars, pdfVars>>

\* log_habit: INSERT INTO habit_logs (id, habit_id, logged_date, completed,
\* notes, created_at) with a new uuid4 as id; the table has no constraint
\* besides the primary key.
log_habit(habit_id, completed, logged_date, notes) ==
    \E log_id \in {uuid4} \cap Ids :
        LET day == IF logged_date = NoDate THEN strftime(date(utcnow))
                   ELSE logged_date
            row == [id |-> log_id,
                    habit_id |-> habit_id,
                    logged_date |-> day,
                    completed |-> AdaptBool(completed),
                    notes |-> notes,
                    created_at |-> isoformat(utcnow)]
        IN  /\ habit_logs' = Insert(habit_logs, row)
            /\ issued' = issued \cup {log_id}
            /\ call' = [op |-> "log_habit", habit_id |-> habit_id,
                        completed |-> completed, logged_date |-> logged_date,
                        notes |-> notes]
            /\ ret' = RetStr(log_id)
            /\ UNCHANGED <<conversations, clock, writes, input, llmVars, pdfVars>>

HabitLog(row) ==
    [kind |-> "habit_log",
     id |-> row.id,
     habit_id |-> row.habit_id,
     logged_date |-> row.logged_date,
     completed |-> Bool(row.completed),
     notes |-> row.notes,
     created_at |-> row.created_at]

\* get_habit_for_date: fetchone() of a SELECT without ORDER BY, any one of
\* the rows of the habit and the date, None when there is none.
get_habit_for_date(habit_id, day) ==
    LET S == {i \in DOMAIN habit_logs :
                  /\ habit_logs[i].habit_id = habit_id
                  /\ habit_logs[i].logged_date = day}
    IN  \E r \in (IF S = {} THEN {RetNone} ELSE {})
                     \cup {HabitLog(habit_logs[i]) : i \in S} :
            /\ call' = [op |-> "get_habit_for_date", habit_id |-> habit_id,
                        date |-> day]
            /\ ret' = r
            /\ UNCHANGED <<conversations, issued, clock, writes, input, habit_logs, llmVars, pdfVars>>

\* get_habits_for_date: WHERE logged_date = ? ORDER BY created_at DESC
get_habits_for_date(day) ==
    LET S == {i \in DOMAIN habit_logs : habit_logs[i].logged_date = day}
    IN  \E o \in Orderings(habit_logs, S) :
            /\ call' = [op |-> "get_habits_for_date", date |-> day]
            /\ ret' = RetList([k \in 1..Len(o) |-> HabitLog(habit_logs[o[k]])])
            /\ UNCHANGED <<conversations, issued, clock, writes, input, habit_logs, llmVars, pdfVars>>

\* ORDER BY logged_date DESC: every order of the rows in which logged_date
\* never increases; rows of one date come in an order SQL leaves open.
RECURSIVE OrderingsByDate(_, _)
OrderingsByDate(table, S) ==
    IF S = {} THEN {<<>>}
    ELSE UNION {{<<i>> \o o : o \in OrderingsByDate(table, S \ {i})} :
                   i \in {i \in S : \A j \in S :
                              TextLeq(table[j].logged_date, table[i].logged_date)}}

\* The WHERE clause of get_habit_stats: habit_id = ? AND logged_date >= ?
InWindow(table, habit_id, start_date) ==
    {i \in DOMAIN table :
        /\ table[i].habit_id = habit_id
        /\ TextLeq(start_date, table[i].logged_date)}

\* completed_count without the condition on the completed column.
completed_countOfAll(rows) == Len(rows)

\* sum(1 for row in rows if row[1])
completed_count(rows) == Cardinality({k \in DOMAIN rows : Bool(rows[k][2])})

\* The day a logged date text stands for.
DayOf(text) == CHOOSE d \in 0..(MaxDays + 1) : strftime(d) = text

\* The streak loop stopping also where the next row is not of the day before.
RECURSIVE streakOfConsecutiveDays(_)
streakOfConsecutiveDays(rows) ==
    IF rows = <<>> \/ ~Bool(rows[1][2]) THEN 0
    ELSE IF Len(rows) >= 2 /\ DayOf(rows[2][1]) # DayOf(rows[1][1]) - 1 THEN 1
    ELSE 1 + streakOfConsecutiveDays(Tail(rows))

\* The streak loop: rows counted from the first one, up to the first row
\* that is not completed.
RECURSIVE streak(_)
streak(rows) ==
    IF rows = <<>> \/ ~Bool(rows[1][2]) THEN 0
    ELSE 1 + streak(Tail(rows))

\* Numbers that are not integers: the quotient n / d in lowest terms.
RECURSIVE GCD(_, _)
GCD(a, b) == IF b = 0 THEN a ELSE GCD(b, a % b)
Quotient(n, d) == <<n \div GCD(n, d), d \div GCD(n, d)>>

\* (completed_count / days * 100) if days > 0 else 0
completion_rate(completed, days) ==
    IF days > 0 THEN Quotient(completed * 100, days) ELSE Quotient(0, 1)

\* get_habit_stats: rows is the list of (logged_date, completed) tuples
\* fetched.
get_habit_stats(habit_id, days) ==
    LET today == date(utcnow)
        start_date == today - (days - 1)
        S == InWindow(habit_logs, habit_id, strftime(start_date))
        Rows(o) == [k \in 1..Len(o) |->
                       <<habit_logs[o[k]].logged_date, habit_logs[o[k]].completed>>]
    IN  \E rows \in {Rows(o) : o \in OrderingsByDate(habit_logs, S)} :
            /\ call' = [op |-> "get_habit_stats", habit_id |-> habit_id,
                        days |-> days]
            /\ ret' = [kind |-> "stats",
                       habit_id |-> habit_id,
                       days_tracked |-> days,
                       completed |-> completed_count(rows),
                       total |-> Len(rows),
                       completion_rate |-> completion_rate(completed_count(rows), days),
                       current_streak |-> streak(rows),
                       logs |-> rows]
            /\ UNCHANGED <<conversations, issued, clock, writes, input, habit_logs, llmVars, pdfVars>>

\* Arguments: the habit under study is logged done or not done for today
\* (no date given) and done for a day after the last one; the other habit is
\* logged done, with a note, for today. The reads by date ask for today, and
\* the statistics of the other habit are asked with the default window.
FutureDate == strftime(MaxDays + 1)
LogArgs ==
    { [habit_id |-> "workout", completed |-> TRUE, logged_date |-> NoDate,
       notes |-> None],
      [habit_id |-> "workout", completed |-> FALSE, logged_date |-> NoDate,
       notes |-> None],
      [habit_id |-> "workout", completed |-> TRUE, logged_date |-> FutureDate,
       notes |-> None],
      [habit_id |-> "reading", completed |-> TRUE, logged_date |-> NoDate,
       notes |-> "Test entry"] }
DefaultDays == 7
DaysArgs == {-1, 0, 1, 3, MaxDays + 1}

NextHabit ==
    \/ Midnight
    \/ \E a \in LogArgs :
           log_habit(a.habit_id, a.completed, a.logged_date, a.notes)
    \/ get_habit_for_date("workout", strftime(date(utcnow)))
    \/ get_habits_for_date(strftime(date(utcnow)))
    \/ \E n \in DaysArgs : get_habit_stats("workout", n)
    \/ get_habit_stats("reading", DefaultDays)

SpecHabit == Init /\ [][NextHabit]_vars

-----------------------------------------------------------------------------
(* The LLM providers of src/src/core/llm.py: the classes OllamaProvider,   *)
(* OpenAIProvider and GeminiProvider, and the factory create_llm_provider. *)
(* A run follows one provider instance from the call that makes it.        *)

\* A provider tag is a text whose letters matter: a sequence of characters.
ollama == <<"o", "l", "l", "a", "m", "a">>
openai == <<"o", "p", "e", "n", "a", "i">>
gemini == <<"g", "e", "m", "i", "n", "i">>

\* str.lower(), on the letters the tags of the model are written with.
LowerChar(c) ==
    CASE c = "A" -> "a" [] c = "E" -> "e" [] c = "G" -> "g" [] c = "I" -> "i"
      [] c = "L" -> "l" [] c = "M" -> "m" [] c = "N" -> "n" [] c = "O" -> "o"
      [] c = "P" -> "p" [] OTHER -> c

\* The tag compared as it is written.
AsWritten(s) == s

lower(s) == [k \in 1..Len(s) |-> LowerChar(s[k])]

\* The constructors: the fields are set and the client is None.
OllamaProvider(base_url, model) ==
    [cls |-> "OllamaProvider", base_url |-> base_url, model |-> model,
     client |-> NoClient]
OpenAIProvider(api_key, model) ==
    [cls |-> "OpenAIProvider", api_key |-> api_key, model |-> model,
     client |-> NoClient]
GeminiProvider(api_key, model) ==
    [cls |-> "GeminiProvider", api_key |-> api_key, model |-> model,
     client |-> NoClient]

\* The client initialize constructs, the serial-th client of the instance.
ClientOf(p, serial) ==
    CASE p.cls = "OllamaProvider" ->
             [cls |-> "ChatOllama", serial |-> serial, model |-> p.model,
              base_url |-> p.base_url]
      [] p.cls = "OpenAIProvider" ->
             [cls |-> "ChatOpenAI", serial |-> serial, model |-> p.model,
              api_key |-> p.api_key]
      [] p.cls = "GeminiProvider" ->
             [cls |-> "ChatGoogleGenerativeAI", serial |-> serial,
              model |-> p.model, google_api_key |-> p.api_key,
              temperature |-> "0.7"]

\* An exception with its message: a fixed text and the value formatted in.
Raise(error, text, arg) ==
    [kind |-> "raise", error |-> error, text |-> text, arg |-> arg]
RetProvider(p) == [kind |-> "provider", val |-> p]
RetDict(d) == [kind |-> "dict", val |-> d]

\* The message of the ValueError for a backend's missing parameters.
MissingText(b) ==
    CASE b = ollama -> "ollama_base_url and ollama_model required for Ollama provider"
      [] b = openai -> "openai_api_key and openai_model required for OpenAI provider"
      [] b = gemini -> "gemini_api_key and gemini_model required for Gemini provider"

\* The body of create_llm_provider: the provider returned or the error raised.
FactoryResult(a) ==
    IF lower(a.provider_type) = ollama THEN
        IF ~Truthy(a.ollama_base_url) \/ ~Truthy(a.ollama_model)
        THEN Raise("ValueError", MissingText(ollama), <<>>)
        ELSE RetProvider(OllamaProvider(a.ollama_base_url, a.ollama_model))
    ELSE IF lower(a.provider_type) = openai THEN
        IF ~Truthy(a.openai_api_key) \/ ~Truthy(a.openai_model)
        THEN Raise("ValueError", MissingText(openai), <<>>)
        ELSE RetProvider(OpenAIProvider(a.openai_api_key, a.openai_model))
    ELSE IF lower(a.provider_type) = gemini THEN
        IF ~Truthy(a.gemini_api_key) \/ ~Truthy(a.gemini_model)
        THEN Raise("ValueError", MissingText(gemini), <<>>)
        ELSE RetProvider(GeminiProvider(a.gemini_api_key, a.gemini_model))
    ELSE Raise("ValueError", "Unknown LLM provider: ", a.provider_type)

\* A new instance whose constructor has made the client.
FreshWithClient(p) ==
    /\ provider' = [p EXCEPT !.client = ClientOf(p, 1)]
    /\ trace' = <<>>
    /\ inits' = 0
    /\ constructed' = 1
    /\ invocations' = 0
    /\ invoked' = NotInvoked

\* A new instance: nothing has been called on it.
Fresh(p) ==
    /\ provider' = p
    /\ trace' = <<>>
    /\ inits' = 0
    /\ constructed' = 0
    /\ invocations' = 0
    /\ invoked' = NotInvoked

\* create_llm_provider: the caller holds the provider returned; when the
\* factory raises there is none.
create_llm_provider(a) ==
    /\ provider = NoProvider
    /\ call' = [op |-> "create_llm_provider", args |-> a]
    /\ ret' = FactoryResult(a)
    /\ IF FactoryResult(a).kind = "provider"
       THEN Fresh(FactoryResult(a).val)
       ELSE UNCHANGED llmVars
    /\ UNCHANGED <<storeVars, pdfVars>>

\* A provider built by calling its class.
__init__(p) ==
    /\ provider = NoProvider
    /\ call' = [op |-> "__init__", cls |-> p.cls]
    /\ ret' = RetNone
    /\ Fresh(p)
    /\ UNCHANGED <<storeVars, pdfVars>>

\* What the backend library does when initialize imports it and calls its
\* chat class: the client is made, the import fails, or the call raises.
Outcomes == {"ok", "ImportError", "Exception"}

Backend(p) ==
    CASE p.cls = "OllamaProvider" -> "Ollama"
      [] p.cls = "OpenAIProvider" -> "OpenAI"
      [] p.cls = "GeminiProvider" -> "Gemini"

\* The guard written as `if self.api_key is None`.
KeyIsNone(p) ==
    CASE p.cls = "OllamaProvider" -> FALSE
      [] p.cls = "OpenAIProvider" -> p.api_key = None
      [] p.cls = "GeminiProvider" -> p.api_key = None

\* `if not self.api_key: raise ValueError(...)` of the two cloud classes.
KeyNotSet(p) ==
    CASE p.cls = "OllamaProvider" -> FALSE
      [] p.cls = "OpenAIProvider" -> ~Truthy(p.api_key)
      [] p.cls = "GeminiProvider" -> ~Truthy(p.api_key)

KeyNotSetText(p) ==
    IF p.cls = "OpenAIProvider"
    THEN "OPENAI_API_KEY environment variable not set"
    ELSE "GEMINI_API_KEY not set"

\* initialize that sets self.client = None before it constructs.
InitializeResultResetting(p, outcome, serial) ==
    LET q == [p EXCEPT !.client = NoClient]
    IN  IF KeyNotSet(p)
        THEN [provider |-> q, built |-> 0,
              ret |-> Raise("ValueError", KeyNotSetText(p), <<>>)]
        ELSE CASE outcome = "ok" ->
                      [provider |-> [p EXCEPT !.client = ClientOf(p, serial)],
                       built |-> 1, ret |-> RetNone]
               [] outcome = "ImportError" ->
                      [provider |-> q, built |-> 0,
                       ret |-> Raise("ImportError", "library not installed",
                                     <<Backend(p)>>)]
               [] outcome = "Exception" ->
                      [provider |-> q, built |-> 0,
                       ret |-> Raise("RuntimeError", "Failed to initialize",
                                     <<Backend(p), "cause">>)]

\* The body of initialize: the instance afterwards, what the call returns or
\* raises, and the number of clients it constructed.
InitializeResult(p, outcome, serial) ==
    IF KeyNotSet(p)
    THEN [provider |-> p, built |-> 0,
          ret |-> Raise("ValueError", KeyNotSetText(p), <<>>)]
    ELSE CASE outcome = "ok" ->
                  [provider |-> [p EXCEPT !.client = ClientOf(p, serial)],
                   built |-> 1, ret |-> RetNone]
           [] outcome = "ImportError" ->
                  [provider |-> p, built |-> 0,
                   ret |-> Raise("ImportError", "library not installed", <<Backend(p)>>)]
           [] outcome = "Exception" ->
                  [provider |-> p, built |-> 0,
                   ret |-> Raise("RuntimeError", "Failed to initialize",
                                 <<Backend(p), "cause">>)]

\* initialize that returns at once when the instance has a client.
initializeKeepsClient ==
    /\ provider # NoProvider
    /\ Len(trace) < MaxCalls
    /\ \E outcome \in Outcomes :
           LET r == IF provider.client # NoClient
                    THEN [provider |-> provider, built |-> 0, ret |-> RetNone]
                    ELSE InitializeResult(provider, outcome, constructed + 1)
           IN  /\ provider' = r.provider
               /\ ret' = r.ret
               /\ constructed' = constructed + r.built
    /\ inits' = inits + 1
    /\ trace' = Append(trace, "initialize")
    /\ call' = [op |-> "initialize"]
    /\ UNCHANGED <<invocations, invoked, storeVars, pdfVars>>

initialize ==
    /\ provider # NoProvider
    /\ Len(trace) < MaxCalls
    /\ \E outcome \in Outcomes :
           LET r == InitializeResult(provider, outcome, constructed + 1)
           IN  /\ provider' = r.provider
               /\ ret' = r.ret
               /\ constructed' = constructed + r.built
    /\ inits' = inits + 1
    /\ trace' = Append(trace, "initialize")
    /\ call' = [op |-> "initialize"]
    /\ UNCHANGED <<invocations, invoked, storeVars, pdfVars>>

\* What client.invoke does: it returns a response, or it raises.
Responses == {"Hello! How can I help?"}
InvokeOutcomes ==
    [kind : {"response"}, content : Responses]
        \cup {Raise("ConnectionError", "connection refused", <<>>)}

\* chat that calls self.initialize() whether or not the client is set.
chatInitializesAlways(messages, kwargs) ==
    /\ provider # NoProvider
    /\ Len(trace) < MaxCalls
    /\ \E outcome \in Outcomes, answer \in InvokeOutcomes :
           LET r == InitializeResult(provider, outcome, constructed + 1)
           IN  /\ provider' = r.provider
               /\ inits' = inits + 1
               /\ constructed' = constructed + r.built
               /\ IF r.ret.kind = "raise"
                  THEN /\ ret' = r.ret
                       /\ UNCHANGED <<invocations, invoked>>
                  ELSE /\ invocations' = invocations + 1
                       /\ invoked' = [client |-> r.provider.client,
                                      messages |-> messages, kwargs |-> kwargs,
                                      answer |-> answer]
                       /\ ret' = IF answer.kind = "raise" THEN answer
                                 ELSE RetStr(answer.content)
    /\ trace' = Append(trace, "chat")
    /\ call' = [op |-> "chat", messages |-> messages, kwargs |-> kwargs]
    /\ UNCHANGED <<storeVars, pdfVars>>

\* chat: `if not self.client: self.initialize()`, then
\* self.client.invoke(messages, **kwargs) and the response's content. An
\* exception of initialize or of invoke leaves chat as it is.
chat(messages, kwargs) ==
    /\ provider # NoProvider
    /\ Len(trace) < MaxCalls
    /\ \E outcome \in Outcomes, answer \in InvokeOutcomes :
           LET lazy == provider.client = NoClient
               r == IF lazy
                    THEN InitializeResult(provider, outcome, constructed + 1)
                    ELSE [provider |-> provider, built |-> 0, ret |-> RetNone]
           IN  /\ provider' = r.provider
               /\ inits' = inits + (IF lazy THEN 1 ELSE 0)
               /\ constructed' = constructed + r.built
               /\ IF r.ret.kind = "raise"
                  THEN /\ ret' = r.ret
                       /\ UNCHANGED <<invocations, invoked>>
                  ELSE /\ invocations' = invocations + 1
                       /\ invoked' = [client |-> r.provider.client,
                                      messages |-> messages, kwargs |-> kwargs,
                                      answer |-> answer]
                       /\ ret' = IF answer.kind = "raise" THEN answer
                                 ELSE RetStr(answer.content)
    /\ trace' = Append(trace, "chat")
    /\ call' = [op |-> "chat", messages |-> messages, kwargs |-> kwargs]
    /\ UNCHANGED <<storeVars, pdfVars>>

\* The dict with every field of a cloud instance in it.
ModelInfoWithKey(p) ==
    CASE p.cls = "OllamaProvider" ->
             [provider |-> ollama, model |-> p.model, base_url |-> p.base_url,
              type |-> "local"]
      [] p.cls = "OpenAIProvider" ->
             [provider |-> openai, model |-> p.model, api_key |-> p.api_key,
              type |-> "cloud"]
      [] p.cls = "GeminiProvider" ->
             [provider |-> gemini, model |-> p.model, api_key |-> p.api_key,
              type |-> "cloud"]

\* The dict get_model_info returns.
ModelInfo(p) ==
    CASE p.cls = "OllamaProvider" ->
             [provider |-> ollama, model |-> p.model, base_url |-> p.base_url,
              type |-> "local"]
      [] p.cls = "OpenAIProvider" ->
             [provider |-> openai, model |-> p.model, type |-> "cloud"]
      [] p.cls = "GeminiProvider" ->
             [provider |-> gemini, model |-> p.model, type |-> "cloud"]

get_model_info ==
    /\ provider # NoProvider
    /\ Len(trace) < MaxCalls
    /\ ret' = RetDict(ModelInfo(provider))
    /\ trace' = Append(trace, "get_model_info")
    /\ call' = [op |-> "get_model_info"]
    /\ UNCHANGED <<provider, inits, constructed, invocations, invoked, storeVars, pdfVars>>

\* Arguments. The tags: the three names in lower, upper and mixed case, a
\* name that is none of them, the empty tag, and a name with a space after it.
TagArgs ==
    { ollama, <<"O", "L", "L", "A", "M", "A">>, <<"O", "l", "l", "a", "m", "a">>,
      openai, <<"O", "p", "e", "n", "A", "I">>,
      gemini, <<"G", "E", "M", "I", "N", "I">>,
      <<"u", "n", "k", "n", "o", "w", "n">>, <<>>,
      <<"o", "l", "l", "a", "m", "a", " ">> }

\* The parameters of one backend vary over absent, empty and given, those of
\* the two other backends are all absent, all empty or all given.
Given == [ollama_base_url |-> "http://localhost:11434", ollama_model |-> "mistral",
          openai_api_key |-> "test-key", openai_model |-> "gpt-4o-mini",
          gemini_api_key |-> "gemini-key", gemini_model |-> "gemini-1.5-flash"]
Params == DOMAIN Given
ParamsOf(b) ==
    CASE b = ollama -> {"ollama_base_url", "ollama_model"}
      [] b = openai -> {"openai_api_key", "openai_model"}
      [] b = gemini -> {"gemini_api_key", "gemini_model"}
Pick(v, k) == IF v = "given" THEN Given[k] ELSE IF v = "empty" THEN "" ELSE None
ParamArgs ==
    UNION {{[k \in Params |-> IF k \in ParamsOf(b) THEN Pick(own[k], k)
                              ELSE Pick(rest, k)] :
               own \in [ParamsOf(b) -> {"absent", "empty", "given"}],
               rest \in {"absent", "empty", "given"}} :
           b \in {ollama, openai, gemini}}
FactoryArgs ==
    {[provider_type |-> t,
      ollama_base_url |-> a.ollama_base_url, ollama_model |-> a.ollama_model,
      openai_api_key |-> a.openai_api_key, openai_model |-> a.openai_model,
      gemini_api_key |-> a.gemini_api_key, gemini_model |-> a.gemini_model] :
        t \in TagArgs, a \in ParamArgs}

\* Providers built directly: with the values of the tests, and with an empty
\* API key.
ProviderArgs ==
    { OllamaProvider(Given.ollama_base_url, Given.ollama_model),
      OpenAIProvider(Given.openai_api_key, Given.openai_model),
      OpenAIProvider("", Given.openai_model),
      GeminiProvider(Given.gemini_api_key, Given.gemini_model),
      GeminiProvider("", Given.gemini_model) }

\* chat is called with one message and no options, and with options.
ChatMessageArgs == { <<HumanMessage(<<"n">>)>> }
KwargsArgs == { <<>>, << <<"temperature", "0.7">>, <<"max_tokens", "100">> >> }

NextLLM ==
    \/ \E a \in FactoryArgs : create_llm_provider(a)
    \/ \E p \in ProviderArgs : __init__(p)
    \/ initialize
    \/ \E m \in ChatMessageArgs, k \in KwargsArgs : chat(m, k)
    \/ get_model_info

SpecLLM == Init /\ [][NextLLM]_vars

-----------------------------------------------------------------------------
(* The PDF agent of src/src/agents/pdf_agent.py: the class PDFAgent over   *)
(* the files of its workspace. PdfReader of pypdf gives the pages of a     *)
(* file, PdfWriter collects pages and writes them to a file.               *)

\* Calls on the agent in one run.
MaxPdfCalls == 2

\* An optional argument: Nothing is None, Some(v) is the value v.
Nothing == <<>>
Some(v) == <<v>>
IsSome(x) == Len(x) = 1

\* str(n) of an integer, one token per digit.
Digit(n) == <<"0", "1", "2", "3", "4", "5", "6", "7", "8", "9">>[n + 1]
RECURSIVE str(_)
str(n) ==
    IF n < 0 THEN <<"-">> \o str(-n)
    ELSE IF n < 10 THEN <<Digit(n)>>
    ELSE str(n \div 10) \o <<Digit(n % 10)>>

\* pathlib.Path(text): the names between the separators, without the empty
\* ones and the "." ones; anchored at the root when the text starts with a
\* separator.
RECURSIVE Segments(_)
Segments(text) ==
    IF \A k \in DOMAIN text : text[k] # Sep THEN <<text>>
    ELSE LET k == CHOOSE i \in DOMAIN text :
                      text[i] = Sep /\ \A j \in 1..(i - 1) : text[j] # Sep
         IN  <<SubSeq(text, 1, k - 1)>> \o Segments(SubSeq(text, k + 1, Len(text)))
IsName(segment) == segment # <<>> /\ segment # <<".">>
Path(text) ==
    [anchor |-> text # <<>> /\ text[1] = Sep,
     parts |-> SelectSeq(Segments(text), IsName)]

\* Path.name and Path.stem
name(p) == IF p.parts = <<>> THEN <<>> ELSE p.parts[Len(p.parts)]
Suffixes == {".pdf", ".txt"}
stem(p) ==
    LET n == name(p)
    IN  IF Len(n) > 1 /\ n[Len(n)] \in Suffixes
        THEN SubSeq(n, 1, Len(n) - 1)
        ELSE n

\* p / text: the text as a path below p, or the text itself when anchored.
Join(p, text) ==
    LET q == Path(text)
    IN  IF q.anchor THEN q
        ELSE [anchor |-> p.anchor, parts |-> p.parts \o q.parts]

\* str(p)
RECURSIVE JoinedBySep(_)
JoinedBySep(parts) ==
    IF parts = <<>> THEN <<>>
    ELSE IF Len(parts) = 1 THEN parts[1]
    ELSE parts[1] \o <<Sep>> \o JoinedBySep(Tail(parts))
PathText(p) ==
    IF p.anchor THEN <<Sep>> \o JoinedBySep(p.parts)
    ELSE IF p.parts = <<>> THEN <<".">>
    ELSE JoinedBySep(p.parts)

\* self.workspace_dir = Path(workspace_dir)
workspace_dir == Path(temp_workspace)

\* The location the operating system finds for a path: the names are
\* followed from the root or from the working directory, ".." leading to
\* the parent; every name but the last must be a directory.
Missing == [found |-> FALSE]
RECURSIVE Walk(_, _)
Walk(at, parts) ==
    IF parts = <<>> THEN [found |-> TRUE, at |-> at]
    ELSE IF at \notin Dirs THEN Missing
    ELSE Walk(IF parts[1] = <<"..">>
              THEN SubSeq(at, 1, Len(at) - 1)
              ELSE Append(at, parts[1]),
              Tail(parts))
Resolve(text) ==
    LET p == Path(text)
    IN  Walk(IF p.anchor THEN <<>> ELSE Cwd, p.parts)

\* Path(file).exists()
exists(fs, text) ==
    /\ Resolve(text).found
    /\ Resolve(text).at \in Dirs \cup DOMAIN fs

\* open(file, "wb"): the error it raises, if any, and the file system after
\* the file has been written.
OpenError(fs, text) ==
    IF ~Resolve(text).found THEN <<"[Errno 2] No such file or directory">>
    ELSE IF Resolve(text).at \in Dirs THEN <<"[Errno 21] Is a directory">>
    ELSE <<>>
Written(fs, text, content) == (Resolve(text).at :> content) @@ fs

\* PdfReader(file).pages: the pages of a PDF file, or the error of a file
\* that is none.
IsPdf(fs, text) ==
    /\ Resolve(text).at \in DOMAIN fs
    /\ fs[Resolve(text).at].kind = "pdf"
pages(fs, text) == fs[Resolve(text).at].pages

\* PDFOperationResult
Message(text, arg) == [text |-> text, arg |-> arg]
PDFOperationResult(success, message, output_files, metadata) ==
    [kind |-> "result", success |-> success, message |-> message,
     output_files |-> output_files, metadata |-> metadata]
Failure(message) == PDFOperationResult(FALSE, message, <<>>, EmptyDict)

\* What a method did: the file system afterwards and the result returned.
Outcome(fs, result) == [files |-> fs, ret |-> result]

\* `if not Path(input_file).exists(): return PDFOperationResult(...)`
NotFound(fs, input_file) ==
    Outcome(fs, Failure(Message("Input file not found: ", input_file)))

\* `except Exception as e`: the result made of the error, here that of
\* PdfReader on a file that is not a PDF file.
ReadFailed(fs, what, input_file) ==
    Outcome(fs, Failure(Message(what, <<"cannot read">> \o input_file)))

\* `with open(output_file, "wb") as f: writer.write(f)` and the result that
\* follows, or the result made of the error of open.
WriteOne(fs, what, output_file, content, result) ==
    IF OpenError(fs, output_file) # <<>>
    THEN Outcome(fs, Failure(Message(what, OpenError(fs, output_file) \o output_file)))
    ELSE Outcome(Written(fs, output_file, content), result)

\* `x in list`
In(x, list) == \E k \in DOMAIN list : list[k] = x

\* `page_numbers or list(range(1, total_pages + 1))`
OrAllPages(page_numbers, total_pages) ==
    IF IsSome(page_numbers) /\ page_numbers[1] # <<>>
    THEN page_numbers[1]
    ELSE [k \in 1..total_pages |-> k]

\* The output file given by the caller, placed in the workspace under its
\* last name: self.workspace_dir / Path(output_file).name
InWorkspace(output_file) ==
    PathText(Join(workspace_dir, name(Path(output_file))))

\* "_".join(map(str, numbers))
RECURSIVE JoinedByUnderscore(_)
JoinedByUnderscore(numbers) ==
    IF numbers = <<>> THEN <<>>
    ELSE IF Len(numbers) = 1 THEN str(numbers[1])
    ELSE str(numbers[1]) \o <<"_">> \o JoinedByUnderscore(Tail(numbers))

Pdf(page_list) == [kind |-> "pdf", pages |-> page_list]

\* The numbers of a list without the repetitions of a number: the keys of a
\* dict in the order they were first set.
RECURSIVE FirstOnes(_)
FirstOnes(numbers) ==
    IF numbers = <<>> THEN <<>>
    ELSE LET front == FirstOnes(SubSeq(numbers, 1, Len(numbers) - 1))
             last == numbers[Len(numbers)]
         IN  IF In(last, front) THEN front ELSE Append(front, last)

\* The pages in range, each of them once.
ValidPagesOnce(page_numbers, total_pages) ==
    LET InRange(n) == 1 <= n /\ n <= total_pages
    IN  FirstOnes(SelectSeq(page_numbers, InRange))

\* The loop of extract_pages over page_numbers: the numbers with
\* 1 <= page_num <= total_pages, as they come.
ValidPages(page_numbers, total_pages) ==
    LET InRange(n) == 1 <= n /\ n <= total_pages
    IN  SelectSeq(page_numbers, InRange)

\* The body of extract_pages.
ExtractPagesOutcome(fs, input_file, page_numbers, output_file) ==
    IF ~exists(fs, input_file) THEN NotFound(fs, input_file)
    ELSE IF ~IsPdf(fs, input_file)
    THEN ReadFailed(fs, "Error extracting pages: ", input_file)
    ELSE
    LET reader == pages(fs, input_file)
        total_pages == Len(reader)
        extracted_pages == ValidPages(page_numbers, total_pages)
        writer == [k \in 1..Len(extracted_pages) |-> reader[extracted_pages[k]]]
        out == IF ~IsSome(output_file)
               THEN PathText(Join(workspace_dir,
                        stem(Path(input_file)) \o <<"_pages_">>
                            \o JoinedByUnderscore(extracted_pages) \o <<".pdf">>))
               ELSE InWorkspace(output_file[1])
    IN  IF extracted_pages = <<>>
        THEN Outcome(fs, Failure(Message("No valid pages to extract", <<>>)))
        ELSE WriteOne(fs, "Error extracting pages: ", out, Pdf(writer),
                 PDFOperationResult(TRUE,
                     Message("Successfully extracted pages: ",
                             str(Len(extracted_pages))),
                     <<out>>, [extracted_pages |-> extracted_pages]))

extract_pages(input_file, page_numbers, output_file) ==
    LET outcome == ExtractPagesOutcome(files, input_file, page_numbers, output_file)
    IN  /\ pdf_calls < MaxPdfCalls
        /\ pdf_calls' = pdf_calls + 1
        /\ call' = [op |-> "extract_pages",
                    args |-> [input_file |-> input_file,
                              page_numbers |-> page_numbers,
                              output_file |-> output_file]]
        /\ files' = outcome.files
        /\ ret' = outcome.ret
        /\ UNCHANGED <<storeVars, llmVars>>

\* page.rotate(angle): the angle is added to the rotation of the page.
rotate(page, angle) == [page EXCEPT !.rotate = (page.rotate + angle) % 360]

\* `rotation not in [90, 180, 270, -90, -180, -270]`
Rotations == {90, 180, 270, -90, -180, -270}

\* The body of rotate_pages.
RotatePagesOutcome(fs, input_file, rotation, page_numbers, output_file) ==
    IF ~exists(fs, input_file) THEN NotFound(fs, input_file)
    ELSE IF rotation \notin Rotations
    THEN Outcome(fs, Failure(Message("Invalid rotation angle: ",
                     str(rotation) \o <<". Use 90, 180, or 270">>)))
    ELSE IF ~IsPdf(fs, input_file)
    THEN ReadFailed(fs, "Error rotating pages: ", input_file)
    ELSE
    LET reader == pages(fs, input_file)
        total_pages == Len(reader)
        pages_to_rotate == OrAllPages(page_numbers, total_pages)
        writer == [page_num \in 1..total_pages |->
                      IF In(page_num, pages_to_rotate)
                      THEN rotate(reader[page_num], rotation)
                      ELSE reader[page_num]]
        out == IF ~IsSome(output_file)
               THEN PathText(Join(workspace_dir,
                        stem(Path(input_file)) \o <<"_rotated", ".pdf">>))
               ELSE InWorkspace(output_file[1])
    IN  WriteOne(fs, "Error rotating pages: ", out, Pdf(writer),
            PDFOperationResult(TRUE,
                Message("Successfully rotated pages: ", str(Len(pages_to_rotate))),
                <<out>>,
                [rotation |-> rotation, pages_rotated |-> Len(pages_to_rotate)]))

rotate_pages(input_file, rotation, page_numbers, output_file) ==
    LET outcome == RotatePagesOutcome(files, input_file, rotation, page_numbers, output_file)
    IN  /\ pdf_calls < MaxPdfCalls
        /\ pdf_calls' = pdf_calls + 1
        /\ call' = [op |-> "rotate_pages",
                    args |-> [input_file |-> input_file, rotation |-> rotation,
                              page_numbers |-> page_numbers,
                              output_file |-> output_file]]
        /\ files' = outcome.files
        /\ ret' = outcome.ret
        /\ UNCHANGED <<storeVars, llmVars>>

\* The pages of the input files one after the other.
RECURSIVE AllPages(_, _)
AllPages(fs, input_files) ==
    IF input_files = <<>> THEN <<>>
    ELSE pages(fs, input_files[1]) \o AllPages(fs, Tail(input_files))

\* The body of merge_pdfs.
MergePdfsOutcome(fs, input_files, output_file) ==
    IF \E k \in DOMAIN input_files : ~exists(fs, input_files[k])
    THEN NotFound(fs, input_files[CHOOSE k \in DOMAIN input_files :
                          /\ ~exists(fs, input_files[k])
                          /\ \A j \in 1..(k - 1) : exists(fs, input_files[j])])
    ELSE IF \E k \in DOMAIN input_files : ~IsPdf(fs, input_files[k])
    THEN ReadFailed(fs, "Error merging PDFs: ", <<>>)
    ELSE
    LET out == IF ~IsSome(output_file)
               THEN PathText(Join(workspace_dir, <<"merged_output", ".pdf">>))
               ELSE InWorkspace(output_file[1])
    IN  WriteOne(fs, "Error merging PDFs: ", out, Pdf(AllPages(fs, input_files)),
            PDFOperationResult(TRUE,
                Message("Successfully merged PDFs: ", str(Len(input_files))),
                <<out>>, [input_count |-> Len(input_files)]))

merge_pdfs(input_files, output_file) ==
    LET outcome == MergePdfsOutcome(files, input_files, output_file)
    IN  /\ pdf_calls < MaxPdfCalls
        /\ pdf_calls' = pdf_calls + 1
        /\ call' = [op |-> "merge_pdfs",
                    args |-> [input_files |-> input_files, output_file |-> output_file]]
        /\ files' = outcome.files
        /\ ret' = outcome.ret
        /\ UNCHANGED <<storeVars, llmVars>>

\* The files split_pdf is to write, in order: the name after the prefix and
\* the pages, for the three ways of splitting.
Parts(reader, pages_per_file) ==
    LET total_pages == Len(reader)
        count == IF pages_per_file > 0
                 THEN (total_pages + pages_per_file - 1) \div pages_per_file
                 ELSE 0
    IN  [j \in 1..count |->
            [tail |-> <<"_part">> \o str(j) \o <<".pdf">>,
             pages |-> SubSeq(reader, (j - 1) * pages_per_file + 1,
                              Min(j * pages_per_file, total_pages))]]
RangesOf(reader, page_ranges) ==
    [idx \in 1..Len(page_ranges) |->
        LET start == page_ranges[idx][1]
            end == page_ranges[idx][2]
        IN  [tail |-> <<"_range">> \o str(idx) \o <<"_p">> \o str(start)
                          \o <<"-">> \o str(end) \o <<".pdf">>,
             pages |-> SubSeq(reader, Max(0, start - 1) + 1, Min(end, Len(reader)))]]
SinglePages(reader) ==
    [n \in 1..Len(reader) |->
        [tail |-> <<"_page">> \o str(n) \o <<".pdf">>, pages |-> <<reader[n]>>]]

\* The files are written one after the other; the first error of open ends
\* the call, and the files written before it stay.
RECURSIVE WrittenInTurn(_, _)
WrittenInTurn(fs, outputs) ==
    IF outputs = <<>> THEN [files |-> fs, error |-> <<>>]
    ELSE IF OpenError(fs, outputs[1].file) # <<>>
    THEN [files |-> fs, error |-> OpenError(fs, outputs[1].file) \o outputs[1].file]
    ELSE WrittenInTurn(Written(fs, outputs[1].file, Pdf(outputs[1].pages)),
                       Tail(outputs))

\* The body of split_pdf.
SplitPdfOutcome(fs, input_file, pages_per_file, page_ranges, output_prefix) ==
    IF ~exists(fs, input_file) THEN NotFound(fs, input_file)
    ELSE IF ~IsPdf(fs, input_file)
    THEN ReadFailed(fs, "Error splitting PDF: ", input_file)
    ELSE
    LET reader == pages(fs, input_file)
        total_pages == Len(reader)
        base_name == stem(Path(input_file))
        prefix == IF IsSome(output_prefix) /\ output_prefix[1] # <<>>
                  THEN output_prefix[1]
                  ELSE base_name \o <<"_split">>
        named == IF IsSome(pages_per_file) /\ pages_per_file[1] # 0
                 THEN Parts(reader, pages_per_file[1])
                 ELSE IF IsSome(page_ranges) /\ page_ranges[1] # <<>>
                 THEN RangesOf(reader, page_ranges[1])
                 ELSE SinglePages(reader)
        outputs == [k \in 1..Len(named) |->
                       [file |-> PathText(Join(workspace_dir, prefix \o named[k].tail)),
                        pages |-> named[k].pages]]
        done == WrittenInTurn(fs, outputs)
        output_files == [k \in 1..Len(outputs) |-> outputs[k].file]
    IN  IF done.error # <<>>
        THEN Outcome(done.files, Failure(Message("Error splitting PDF: ", done.error)))
        ELSE Outcome(done.files,
                 PDFOperationResult(TRUE,
                     Message("Successfully split PDF into files: ",
                             str(Len(output_files))),
                     output_files,
                     [total_pages |-> total_pages,
                      output_count |-> Len(output_files)]))

split_pdf(input_file, pages_per_file, page_ranges, output_prefix) ==
    LET outcome == SplitPdfOutcome(files, input_file, pages_per_file, page_ranges,
                                   output_prefix)
    IN  /\ pdf_calls < MaxPdfCalls
        /\ pdf_calls' = pdf_calls + 1
        /\ call' = [op |-> "split_pdf",
                    args |-> [input_file |-> input_file,
                              pages_per_file |-> pages_per_file,
                              page_ranges |-> page_ranges,
                              output_prefix |-> output_prefix]]
        /\ files' = outcome.files
        /\ ret' = outcome.ret
        /\ UNCHANGED <<storeVars, llmVars>>

RECURSIVE TotalLen(_)
TotalLen(sections) ==
    IF sections = <<>> THEN 0
    ELSE Len(sections[1][2]) + TotalLen(Tail(sections))

\* The body of extract_text: extracted_text is a dict, here the page numbers
\* in range in the order they were first set, each with the text of its
\* page. pdfplumber and pypdf give the text of a page;
\* which of the two is used makes no difference to the files.
ExtractTextOutcome(fs, input_file, page_numbers) ==
    IF ~exists(fs, input_file) THEN NotFound(fs, input_file)
    ELSE IF ~IsPdf(fs, input_file)
    THEN ReadFailed(fs, "Error extracting text: ", input_file)
    ELSE
    LET reader == pages(fs, input_file)
        total_pages == Len(reader)
        keys == FirstOnes(ValidPages(OrAllPages(page_numbers, total_pages), total_pages))
        extracted_text == [k \in 1..Len(keys) |-> <<keys[k], reader[keys[k]].text>>]
        out == PathText(Join(workspace_dir,
                   stem(Path(input_file)) \o <<"_extracted", ".txt">>))
    IN  WriteOne(fs, "Error extracting text: ", out,
            [kind |-> "text", sections |-> extracted_text],
            PDFOperationResult(TRUE,
                Message("Successfully extracted text from pages: ",
                        str(Len(extracted_text))),
                <<out>>,
                [extracted_text |-> extracted_text,
                 total_characters |-> TotalLen(extracted_text),
                 page_count |-> Len(extracted_text)]))

extract_text(input_file, page_numbers) ==
    LET outcome == ExtractTextOutcome(files, input_file, page_numbers)
    IN  /\ pdf_calls < MaxPdfCalls
        /\ pdf_calls' = pdf_calls + 1
        /\ call' = [op |-> "extract_text",
                    args |-> [input_file |-> input_file, page_numbers |-> page_numbers]]
        /\ files' = outcome.files
        /\ ret' = outcome.ret
        /\ UNCHANGED <<storeVars, llmVars>>

\* Arguments. The input files are the two samples and a file that does not
\* exist; the page numbers are in range, out of range, both, repeated, in
\* reverse order, and none.
nonexistent == <<"nonexistent", ".pdf">>
InputArgs == {sample_pdf_1, sample_pdf_2, nonexistent}
PageNumberArgs ==
    { <<1, 3>>, <<3, 1>>, <<1, 99>>, <<99, 100>>, <<2, 2>>, <<0>>, <<>> }

\* Output files: none given, a plain name, a name below "..", a name below a
\* directory that does not exist, "..", and a name in another directory.
OutputFileArgs ==
    { Nothing,
      Some(<<"out", ".pdf">>),
      Some(<<"..", Sep, "out", ".pdf">>),
      Some(<<"sub", Sep, "out", ".pdf">>),
      Some(<<"..">>),
      Some(<<Sep, "tmp", Sep, "out", ".pdf">>) }

ExtractPagesArgs ==
    {[input_file |-> f, page_numbers |-> n, output_file |-> Nothing] :
        f \in InputArgs, n \in PageNumberArgs}
    \cup {[input_file |-> sample_pdf_2, page_numbers |-> <<1, 3>>, output_file |-> o] :
             o \in OutputFileArgs}

RotationArgs == Rotations \cup {45, 0, 360}
RotatePagesArgs ==
    {[input_file |-> sample_pdf_1, rotation |-> r, page_numbers |-> Nothing,
      output_file |-> Nothing] : r \in RotationArgs}
    \cup {[input_file |-> sample_pdf_2, rotation |-> 180, page_numbers |-> Some(n),
           output_file |-> Nothing] :
             n \in {<<1, 3>>, <<1, 99>>, <<2, 2>>, <<99>>, <<>>}}
    \cup {[input_file |-> sample_pdf_2, rotation |-> 90, page_numbers |-> Some(<<2>>),
           output_file |-> o] : o \in OutputFileArgs}
    \cup {[input_file |-> nonexistent, rotation |-> 90, page_numbers |-> Nothing,
           output_file |-> Nothing]}

MergePdfsArgs ==
    {[input_files |-> i, output_file |-> Nothing] :
        i \in {<<sample_pdf_1, sample_pdf_2>>, <<sample_pdf_2, sample_pdf_1>>,
               <<sample_pdf_1, nonexistent>>, <<>>}}
    \cup {[input_files |-> <<sample_pdf_1, sample_pdf_2>>, output_file |-> o] :
             o \in OutputFileArgs}

\* Prefixes: none given, the empty one, a plain one, one below "..", one in
\* another directory, and one below a directory that does not exist.
OutputPrefixArgs ==
    { Nothing,
      Some(<<>>),
      Some(<<"part">>),
      Some(<<"..", Sep, "escaped">>),
      Some(<<Sep, "tmp", Sep, "abs">>),
      Some(<<"sub", Sep, "x">>) }

SplitPdfArgs ==
    {[input_file |-> sample_pdf_1, pages_per_file |-> Nothing,
      page_ranges |-> Nothing, output_prefix |-> x] : x \in OutputPrefixArgs}
    \cup {[input_file |-> sample_pdf_2, pages_per_file |-> n,
           page_ranges |-> Nothing, output_prefix |-> Nothing] :
             n \in {Some(2), Some(0)}}
    \cup {[input_file |-> sample_pdf_2, pages_per_file |-> Nothing,
           page_ranges |-> r, output_prefix |-> Some(<<"..", Sep, "escaped">>)] :
             r \in {Some(<< <<1, 2>>, <<3, 3>> >>), Some(<< <<2, 9>> >>), Some(<<>>)}}
    \cup {[input_file |-> nonexistent, pages_per_file |-> Nothing,
           page_ranges |-> Nothing, output_prefix |-> Nothing]}

ExtractTextArgs ==
    {[input_file |-> f, page_numbers |-> Nothing] : f \in InputArgs}
    \cup {[input_file |-> sample_pdf_2, page_numbers |-> Some(n)] :
             n \in {<<1, 3>>, <<99>>, <<2, 2>>}}

NextPDF ==
    \/ \E a \in MergePdfsArgs : merge_pdfs(a.input_files, a.output_file)
    \/ \E a \in SplitPdfArgs :
           split_pdf(a.input_file, a.pages_per_file, a.page_ranges, a.output_prefix)
    \/ \E a \in ExtractTextArgs : extract_text(a.input_file, a.page_numbers)
    \/ \E a \in ExtractPagesArgs :
           extract_pages(a.input_file, a.page_numbers, a.output_file)
    \/ \E a \in RotatePagesArgs :
           rotate_pages(a.input_file, a.rotation, a.page_numbers, a.output_file)

SpecPDF == Init /\ [][NextPDF]_vars

-----------------------------------------------------------------------------
(* Properties of the store.                                                *)

Exists(conv_id) == conv_id \in DOMAIN conversations

IsChat(m) == m.cls \in {"HumanMessage", "AIMessage"}
AllChat(messages) == \A k \in DOMAIN messages : IsChat(messages[k])

\* Same length, and the same role and content at every position.
SameMessages(a, b) ==
    /\ Len(a) = Len(b)
    /\ \A k \in DOMAIN a : a[k].cls = b[k].cls /\ a[k].content = b[k].content

\* C1: save_conversation with an id that has no record inserts one: the call
\* completes without error, and load_conversation of that id then returns a
\* record with that id and the given messages.
C1_SaveInsertsNewId ==
    [][\A i \in IdArgs, m \in SaveMessageArgs, ti \in SaveTitleArgs :
          (~Exists(i) /\ save_conversation(i, m, ti)) =>
              /\ ret'.kind # "raise"
              /\ LoadResult(conversations', i).kind = "conv"
              /\ LoadResult(conversations', i).id = i
              /\ SameMessages(LoadResult(conversations', i).messages, m)]_vars

\* The last call stored the list `input` under id i.
Persisted(i) ==
    \/ call.op = "create_conversation" /\ ret = RetStr(i)
    \/ call.op = "save_conversation" /\ call.conv_id = i

\* C2: a list of human/assistant messages stored with create_conversation or
\* save_conversation and then loaded under the same id comes back with the
\* same length and the same role and content at every position.
C2_RoundTrip ==
    [][\A i \in IdArgs :
          (AllChat(input) /\ Persisted(i) /\ load_conversation(i)) =>
              /\ ret'.kind = "conv"
              /\ SameMessages(ret'.messages, input)]_vars

\* The round trip of C2 for the calls that did store: create_conversation, and
\* save_conversation on an id that has a record.
RoundTripOfStored ==
    [][\A i \in IdArgs :
          (AllChat(input) /\ Persisted(i) /\ ret.kind # "raise"
              /\ load_conversation(i)) =>
              /\ ret'.kind = "conv"
              /\ SameMessages(ret'.messages, input)]_vars

\* C3: a save_conversation on an existing id never decreases updated_at, and
\* increases it when the clock has advanced since updated_at was written.
C3_UpdatedAtMonotone ==
    [][\A i \in IdArgs, m \in SaveMessageArgs, ti \in SaveTitleArgs :
          (Exists(i) /\ save_conversation(i, m, ti)) =>
              /\ TextLeq(conversations[i].updated_at, conversations'[i].updated_at)
              /\ \A c \in 0..MaxClock :
                     (isoformat(c) = conversations[i].updated_at /\ c < clock) =>
                         TextLess(conversations[i].updated_at,
                                  conversations'[i].updated_at)]_vars

\* A save at a later clock reading than the one that wrote updated_at.
C3_Witness ==
    /\ call.op = "save_conversation"
    /\ ret = RetNone
    /\ Exists(call.conv_id)
    /\ conversations[call.conv_id].updated_at = isoformat(MaxClock)
    /\ conversations[call.conv_id].created_at = isoformat(0)

\* C4: save_conversation on an existing id leaves the record's id, type,
\* created_at and metadata as they were (and its title when no title is
\* given), and leaves every other record of the table as it was.
C4_SaveFrame ==
    [][\A i \in IdArgs, m \in SaveMessageArgs, ti \in SaveTitleArgs :
          (Exists(i) /\ save_conversation(i, m, ti)) =>
              /\ DOMAIN conversations' = DOMAIN conversations
              /\ conversations'[i].id = conversations[i].id
              /\ conversations'[i].type = conversations[i].type
              /\ conversations'[i].created_at = conversations[i].created_at
              /\ conversations'[i].metadata = conversations[i].metadata
              /\ (ti = None => conversations'[i].title = conversations[i].title)
              /\ \A j \in DOMAIN conversations \ {i} :
                     conversations'[j] = conversations[j]]_vars

\* A save that changed one of two records.
C4_Witness ==
    /\ call.op = "save_conversation"
    /\ ret = RetNone
    /\ Cardinality(DOMAIN conversations) >= 2
    /\ \E j \in DOMAIN conversations \ {call.conv_id} :
           conversations[j].messages # conversations[call.conv_id].messages

\* C5, as claimed: save_conversation on an existing id stores the title
\* argument whenever one is given, and keeps the stored title when none is.
C5_TitleReplacedWhenGiven ==
    [][\A i \in IdArgs, m \in SaveMessageArgs, ti \in SaveTitleArgs :
          (Exists(i) /\ save_conversation(i, m, ti)) =>
              /\ (ti # None => conversations'[i].title = ti)
              /\ (ti = None => conversations'[i].title = conversations[i].title)]_vars

\* C5, amended: save_conversation on an existing id stores the title argument
\* whenever it is a non-empty string, and keeps the stored title when the
\* title is omitted (None) or is the empty string.
C5_TitleReplacedWhenTruthy ==
    [][\A i \in IdArgs, m \in SaveMessageArgs, ti \in SaveTitleArgs :
          (Exists(i) /\ save_conversation(i, m, ti)) =>
              /\ (Truthy(ti) => conversations'[i].title = ti)
              /\ (~Truthy(ti) => conversations'[i].title = conversations[i].title)]_vars

\* A save with a new title on a record created with another one, and a save
\* with the empty title on a record that keeps its title.
C5_Witness ==
    /\ call.op = "save_conversation"
    /\ ret = RetNone
    /\ \/ call.title = "B" /\ conversations[call.conv_id].title = "B"
       \/ call.title = "" /\ conversations[call.conv_id].title = "A"

\* C6: load_conversation on an id that has no record (never created, or
\* deleted) returns None, delete_conversation on it returns False, and
\* neither changes the table.
C6_NotFoundIsStable ==
    [][\A i \in IdArgs :
          ~Exists(i) =>
              /\ load_conversation(i) =>
                     ret' = RetNone /\ conversations' = conversations
              /\ delete_conversation(i) =>
                     ret' = RetBool(FALSE) /\ conversations' = conversations]_vars

\* A second delete of an id that was created and deleted.
C6_Witness ==
    /\ call.op = "delete_conversation"
    /\ ret = RetBool(FALSE)
    /\ call.conv_id \in issued
    /\ writes = MaxWrites

\* The ids list_conversations can return for some type filter.
Listed(table) == UNION {Matching(table, t) : t \in TypeArgs \cup {None}}

\* C7: delete_conversation returns True exactly when the id had a record;
\* after it has returned True, load_conversation of the id returns None, no
\* list_conversations returns the id, and a second delete returns False.
C7_DeleteRemoves ==
    [][\A i \in IdArgs :
          delete_conversation(i) =>
              /\ ret'.val = Exists(i)
              /\ ret'.val =>
                     /\ LoadResult(conversations', i) = RetNone
                     /\ i \notin Listed(conversations')
                     /\ rowcount(conversations', i) = 0]_vars

\* A delete that removed one of two records.
C7_Witness ==
    /\ call.op = "delete_conversation"
    /\ ret = RetBool(TRUE)
    /\ conversations # <<>>

\* C8: directly after create_conversation has returned an id, the load of
\* that id returns a record with the id, the given type, title and messages,
\* empty metadata, and created_at equal to updated_at.
C8_CreatePersists ==
    call.op = "create_conversation" =>
        LET r == LoadResult(conversations, ret.val)
        IN  /\ r.kind = "conv"
            /\ r.id = ret.val
            /\ r.type = call.conv_type
            /\ r.title = call.title
            /\ SameMessages(r.messages, call.messages)
            /\ r.metadata = EmptyDict
            /\ r.created_at = r.updated_at

\* A create with no messages and no title, after another record was saved.
C8_Witness ==
    /\ call.op = "create_conversation"
    /\ call.messages = <<>>
    /\ call.title = None
    /\ Cardinality(DOMAIN conversations) >= 2

\* created_at never increases along a list of summaries.
NewestFirst(summaries) ==
    \A j, k \in DOMAIN summaries :
        j < k => TextLeq(summaries[k].created_at, summaries[j].created_at)

\* Ids are numbered in the order of their creation: a conversation created
\* later never comes after one created earlier.
ReverseCreationOrder(summaries) ==
    \A j, k \in DOMAIN summaries : j < k => summaries[j].id > summaries[k].id

\* C9, as claimed: list_conversations(limit=1) directly after a create
\* returns exactly the summary of the new conversation, and every list is in
\* reverse order of creation.
C9_ListInCreationOrder ==
    [][/\ (call.op = "create_conversation" /\ list_conversations(None, 1, 0)) =>
              /\ Len(ret'.val) = 1
              /\ ret'.val[1].id = ret.val
       /\ call'.op = "list_conversations" => ReverseCreationOrder(ret'.val)]_vars

\* created_at of the record is later than that of every other record.
StrictlyNewest(table, i) ==
    \A j \in DOMAIN table \ {i} : TextLess(table[j].created_at, table[i].created_at)

\* C9, amended: list_conversations(limit=1) directly after a create returns
\* exactly the summary of the new conversation when its created_at is later
\* than every other record's, and every list is in descending order of
\* created_at, so that a conversation comes before every conversation with an
\* earlier created_at.
C9_ListByCreatedAt ==
    [][/\ (/\ call.op = "create_conversation"
           /\ StrictlyNewest(conversations, ret.val)
           /\ list_conversations(None, 1, 0)) =>
              /\ Len(ret'.val) = 1
              /\ ret'.val[1].id = ret.val
       /\ call'.op = "list_conversations" =>
              /\ NewestFirst(ret'.val)
              /\ \A j, k \in DOMAIN ret'.val :
                     TextLess(ret'.val[k].created_at, ret'.val[j].created_at)
                         => j < k]_vars

\* A list of three conversations, two of them created at the same clock
\* reading and one later.
C9_Witness ==
    /\ call.op = "list_conversations"
    /\ Len(ret.val) = 3
    /\ ret.val[1].created_at # ret.val[2].created_at
    /\ ret.val[2].created_at = ret.val[3].created_at

\* C10: list_conversations(conv_type=T) returns only records of type T, in
\* descending order of created_at, and returns every record of type T when
\* offset is 0 and limit is at least their number.
C10_ListByType ==
    (call.op = "list_conversations" /\ call.conv_type \in ConversationTypes) =>
        LET ofType == {i \in DOMAIN conversations :
                          conversations[i].type = call.conv_type}
        IN  /\ \A k \in DOMAIN ret.val : ret.val[k].type = call.conv_type
            /\ NewestFirst(ret.val)
            /\ (call.offset = 0 /\ call.limit >= Cardinality(ofType)) =>
                   /\ {ret.val[k].id : k \in DOMAIN ret.val} = ofType
                   /\ Len(ret.val) = Cardinality(ofType)

\* A list by type that returns two records and leaves out a third of the
\* other type.
C10_Witness ==
    /\ call.op = "list_conversations"
    /\ call.conv_type \in ConversationTypes
    /\ Len(ret.val) = 2
    /\ Cardinality(DOMAIN conversations) = 3

\* C13: loading keeps exactly the stored entries tagged HumanMessage or
\* AIMessage, in their stored order, and drops every entry with another tag
\* without an error: every message of the list was stored, the load returns
\* the record, and its messages are the human and assistant messages of the
\* list in order, fewer than were stored when the list held another class.
C13_LoadDropsOtherTags ==
    (call.op = "load_conversation" /\ Exists(call.conv_id)) =>
        /\ Len(conversations[call.conv_id].messages) = Len(input)
        /\ ret.kind = "conv"
        /\ SameMessages(ret.messages, SelectSeq(input, IsChat))
        /\ ~AllChat(input) => Len(ret.messages) < Len(input)

\* A system message followed by an assistant message, loaded back as the
\* assistant message alone.
C13_Witness ==
    /\ call.op = "load_conversation"
    /\ ret.kind = "conv"
    /\ Len(input) = 2
    /\ input[1].cls = "SystemMessage"
    /\ input[2].cls = "AIMessage"
    /\ Len(ret.messages) = 1
    /\ ret.messages[1].cls = "AIMessage"

Max0(n) == IF n < 0 THEN 0 ELSE n

\* The ids of a sequence of row ids.
Range(s) == {s[j] : j \in DOMAIN s}

C12_LatestIsNewest ==
    call.op = "get_latest_conversation" =>
        LET S == IF call.conv_type = None THEN DOMAIN conversations
                 ELSE {i \in DOMAIN conversations :
                           conversations[i].type = call.conv_type}
        IN  /\ (ret = RetNone) <=> (S = {})
            /\ S # {} =>
                   /\ ret.kind = "conv"
                   /\ ret.id \in S
                   /\ ret.type = conversations[ret.id].type
                   /\ ret.title = conversations[ret.id].title
                   /\ ret.created_at = conversations[ret.id].created_at
                   /\ ret.updated_at = conversations[ret.id].updated_at
                   /\ ret.messages =
                          _deserialize_messages(json_loads(conversations[ret.id].messages))
                   /\ ret.metadata = EmptyDict
                   /\ \A j \in S :
                          TextLeq(conversations[j].created_at, ret.created_at)

\* The latest of two records of a type, with a later record of the other
\* type in the table.
C12_Witness ==
    /\ call.op = "get_latest_conversation"
    /\ call.conv_type \in ConversationTypes
    /\ ret.kind = "conv"
    /\ \E j \in DOMAIN conversations :
           /\ conversations[j].type = ret.type
           /\ TextLess(conversations[j].created_at, ret.created_at)
    /\ \E j \in DOMAIN conversations :
           /\ conversations[j].type # ret.type
           /\ TextLess(ret.created_at, conversations[j].created_at)

-----------------------------------------------------------------------------
(* Properties of the habit log.                                            *)

\* C14: the habit log is append-only. Every log_habit call inserts exactly
\* one row, under an id that was never handed out before, and returns that
\* id, whether or not the table already holds a row of the habit and the
\* date; and no step changes or removes a row the table holds.
C14_AppendOnly ==
    [][/\ \A a \in LogArgs :
              log_habit(a.habit_id, a.completed, a.logged_date, a.notes) =>
                  /\ ret'.kind = "str"
                  /\ ret'.val \notin issued
                  /\ ret'.val \notin DOMAIN habit_logs
                  /\ DOMAIN habit_logs' = DOMAIN habit_logs \cup {ret'.val}
                  /\ habit_logs'[ret'.val].id = ret'.val
                  /\ habit_logs'[ret'.val].habit_id = a.habit_id
                  /\ Bool(habit_logs'[ret'.val].completed) = a.completed
       /\ \A i \in DOMAIN habit_logs :
              /\ i \in DOMAIN habit_logs'
              /\ habit_logs'[i] = habit_logs[i]]_vars

\* A second row of the same habit and date, with the other outcome.
C14_Witness ==
    /\ call.op = "log_habit"
    /\ \E i \in DOMAIN habit_logs \ {ret.val} :
           /\ habit_logs[i].habit_id = habit_logs[ret.val].habit_id
           /\ habit_logs[i].logged_date = habit_logs[ret.val].logged_date
           /\ habit_logs[i].completed # habit_logs[ret.val].completed

\* The rows of the habit dated on or after the day `from`, in date order
\* (not in the order of the date texts).
RowsSince(h, from) ==
    {i \in DOMAIN habit_logs :
        /\ habit_logs[i].habit_id = h
        /\ \E d \in from..(MaxDays + 1) : habit_logs[i].logged_date = strftime(d)}

Done(i) == habit_logs[i].completed = 1

\* The rows fetched are the rows of W, most recent date first: as many
\* tuples of every date and outcome as W has such rows, the dates never
\* increasing.
FetchedFrom(logs, W) ==
    /\ Len(logs) = Cardinality(W)
    /\ \A k \in DOMAIN logs :
           Cardinality({j \in DOMAIN logs : logs[j] = logs[k]})
               = Cardinality({i \in W :
                     <<habit_logs[i].logged_date, habit_logs[i].completed>> = logs[k]})
    /\ \A k \in 1..(Len(logs) - 1) :
           DayOf(logs[k + 1][1]) <= DayOf(logs[k][1])

\* A step of get_habit_stats: the only steps that leave get_habit_stats as
\* the last call are its own, and midnight, which moves the clock.
StatsStep == call'.op = "get_habit_stats" /\ clock' = clock

\* C15: get_habit_stats(habit, days) reports, over the habit's rows dated
\* today - (days - 1) or later: total = their number, completed = the number
\* of them that are completed, completion_rate = completed / days * 100 (the
\* number 0 when days <= 0), and current_streak = the length of the longest
\* run of completed rows at the head of the rows in descending order of
\* logged_date. With rows today: done, yesterday: done, two days ago: not
\* done, and days = 3, it reports streak 2, completed 2 and total 3.
C15_StatsCounts ==
    [][StatsStep =>
              LET today == date(clock)
                  h == call'.habit_id
                  n == call'.days
                  W == RowsSince(h, today - (n - 1))
                  done == {i \in W : Done(i)}
                  s == ret'
              IN  /\ s.total = Cardinality(W)
                  /\ s.completed = Cardinality(done)
                  /\ n > 0 => s.completion_rate[1] * n
                                  = Cardinality(done) * 100 * s.completion_rate[2]
                  /\ n <= 0 => s.completion_rate = Quotient(0, 1)
                  /\ FetchedFrom(s.logs, W)
                  /\ s.current_streak <= Len(s.logs)
                  /\ \A k \in 1..s.current_streak : s.logs[k][2] = 1
                  /\ s.current_streak < Len(s.logs) =>
                         s.logs[s.current_streak + 1][2] = 0
                  /\ (/\ n = 3
                      /\ today >= 2
                      /\ s.logs = << <<strftime(today), 1>>,
                                     <<strftime(today - 1), 1>>,
                                     <<strftime(today - 2), 0>> >>) =>
                         /\ s.current_streak = 2
                         /\ s.completed = 2
                         /\ s.total = 3]_vars

\* The statistics of three days: done today (1 February) and yesterday (31
\* January), not done the day before.
C15_Witness ==
    /\ call.op = "get_habit_stats"
    /\ call.days = 3
    /\ date(clock) = 2
    /\ ret.logs = << <<strftime(2), 1>>, <<strftime(1), 1>>, <<strftime(0), 0>> >>
    /\ ret.current_streak = 2
    /\ ret.completion_rate = Quotient(200, 3)

\* C16: a date without a row does not break the streak. current_streak is
\* the number of rows fetched before the first row that is not completed,
\* whatever their dates: when every row fetched is completed the streak is
\* their number, also when days between their dates have no row.
C16_GapKeepsStreak ==
    [][StatsStep =>
              LET logs == ret'.logs
                  notDone == {k \in DOMAIN logs : logs[k][2] = 0}
              IN  /\ notDone = {} => ret'.current_streak = Len(logs)
                  /\ notDone # {} =>
                         \E k \in notDone :
                             /\ \A j \in notDone : k <= j
                             /\ ret'.current_streak = k - 1]_vars

\* Done on the first day and on the third, nothing logged on the second: a
\* streak of two.
C16_Witness ==
    /\ call.op = "get_habit_stats"
    /\ ret.logs = << <<strftime(2), 1>>, <<strftime(0), 1>> >>
    /\ ret.current_streak = 2

\* The rows of the habit dated from the day `from` to the day `to`.
RowsBetween(h, from, to) ==
    {i \in DOMAIN habit_logs :
        /\ habit_logs[i].habit_id = h
        /\ \E d \in from..to : habit_logs[i].logged_date = strftime(d)}

\* C27: get_habit_stats(habit, days) covers the past days only. The rows it
\* fetches, and counts for total, completed and current_streak, are exactly
\* the habit's rows dated from today - (days - 1) to today: no row dated
\* after today and no row of another habit is among them.
C27_StatsCoverPastDaysOnly ==
    [][StatsStep =>
              LET today == date(clock)
                  h == call'.habit_id
                  n == call'.days
                  W == RowsBetween(h, today - (n - 1), today)
                  s == ret'
              IN  /\ s.total = Cardinality(W)
                  /\ s.completed = Cardinality({i \in W : Done(i)})
                  /\ FetchedFrom(s.logs, W)
                  /\ s.current_streak <= Cardinality(W)
                  /\ \A k \in DOMAIN s.logs : DayOf(s.logs[k][1]) <= today]_vars

\* The rows of another habit are never counted.
StatsOfTheHabitOnly ==
    [][StatsStep =>
              ret'.total = Cardinality(RowsSince(call'.habit_id,
                                                 date(clock) - (call'.days - 1)))]_vars

\* C28: for days >= 1, whatever has been logged, get_habit_stats returns a
\* completion_rate from 0 to 100, that is, completed <= days.
C28_RateAtMostHundred ==
    [][(StatsStep /\ call'.days >= 1) =>
              /\ ret'.completed <= call'.days
              /\ 0 <= ret'.completion_rate[1]
              /\ ret'.completion_rate[1] <= 100 * ret'.completion_rate[2]]_vars

-----------------------------------------------------------------------------
(* Properties of the providers.                                            *)

Backends == {ollama, openai, gemini}

\* The tag names backend b in some letter case: b is the tag in lower case.
Names(tag, b) ==
    /\ Len(tag) = Len(b)
    /\ \A k \in DOMAIN tag :
           \/ tag[k] = b[k]
           \/ <<tag[k], b[k]>> \in {<<"A", "a">>, <<"E", "e">>, <<"G", "g">>,
                                    <<"I", "i">>, <<"L", "l">>, <<"M", "m">>,
                                    <<"N", "n">>, <<"O", "o">>, <<"P", "p">>}

ClassOf(b) ==
    CASE b = ollama -> "OllamaProvider"
      [] b = openai -> "OpenAIProvider"
      [] b = gemini -> "GeminiProvider"

ModelParam(b) ==
    CASE b = ollama -> "ollama_model"
      [] b = openai -> "openai_model"
      [] b = gemini -> "gemini_model"

\* A parameter that is neither absent nor empty.
Present(a, k) == a[k] # None /\ a[k] # ""

\* C17: for a tag that names ollama, openai or gemini in any letter case,
\* with the parameters of that backend present, create_llm_provider returns
\* an instance of that backend's class whose model is the model passed and
\* whose get_model_info has the tag in lower case as "provider" and the model
\* passed as "model".
C17_FactorySelectsByTag ==
    call.op = "create_llm_provider" =>
        \A b \in Backends :
            (/\ Names(call.args.provider_type, b)
             /\ \A k \in ParamsOf(b) : Present(call.args, k)) =>
                /\ ret.kind = "provider"
                /\ provider = ret.val
                /\ ret.val.cls = ClassOf(b)
                /\ ret.val.model = call.args[ModelParam(b)]
                /\ ModelInfo(ret.val).provider = b
                /\ ModelInfo(ret.val).model = call.args[ModelParam(b)]

\* The tag "OpenAI" with the OpenAI parameters given and no other parameter.
C17_Witness ==
    /\ call.op = "create_llm_provider"
    /\ call.args.provider_type = <<"O", "p", "e", "n", "A", "I">>
    /\ call.args.ollama_model = None
    /\ call.args.gemini_api_key = None
    /\ ret.kind = "provider"
    /\ ret.val.cls = "OpenAIProvider"

\* C18: create_llm_provider raises, and the caller gets no provider, with the
\* unknown-provider error for every tag that names none of ollama, openai and
\* gemini, and with the missing-parameter error of the backend the tag names
\* whenever one of that backend's two parameters is absent or empty; the
\* parameters of the other backends never make it fail.
C18_FactoryErrors ==
    call.op = "create_llm_provider" =>
        LET a == call.args
        IN  /\ (\A b \in Backends : ~Names(a.provider_type, b)) =>
                   /\ ret = Raise("ValueError", "Unknown LLM provider: ",
                                  a.provider_type)
                   /\ provider = NoProvider
            /\ \A b \in Backends :
                   Names(a.provider_type, b) =>
                       IF \A k \in ParamsOf(b) : Present(a, k)
                       THEN ret.kind = "provider"
                       ELSE /\ ret.kind = "raise"
                            /\ ret.error = "ValueError"
                            /\ ret.text # "Unknown LLM provider: "
                            /\ ret.text = MissingText(b)
                            /\ provider = NoProvider

\* The tag "GEMINI" with an empty key, the other backends' parameters given.
C18_Witness ==
    /\ call.op = "create_llm_provider"
    /\ call.args.provider_type = <<"G", "E", "M", "I", "N", "I">>
    /\ call.args.gemini_api_key = ""
    /\ call.args.gemini_model = Given.gemini_model
    /\ call.args.ollama_base_url = Given.ollama_base_url
    /\ call.args.openai_api_key = Given.openai_api_key
    /\ ret.kind = "raise"

\* Only get_model_info has been called on the instance, if anything.
NeverStarted == \A k \in DOMAIN trace : trace[k] = "get_model_info"

ChatStep == call'.op = "chat" /\ trace' # trace

\* initialize has not been called by the caller.
OnlyLazy == \A k \in DOMAIN trace : trace[k] # "initialize"

\* C20: lazy initialization happens exactly once. chat on a provider without
\* a client runs initialize once, and invokes the client only when that has
\* succeeded, and then the client it has just constructed; chat on a provider
\* with a client does not run initialize and invokes that client. So while
\* the caller never calls initialize itself, at most one client is
\* constructed, and exactly one once a chat has got as far as invoking. A
\* chat invokes the client once, with the messages and the options it was
\* given, and returns the content of the response.
C20_LazyInitOnce ==
    [][ChatStep =>
          /\ provider.client = NoClient =>
                 /\ inits' = inits + 1
                 /\ IF provider'.client # NoClient
                    THEN /\ constructed' = constructed + 1
                         /\ invocations' = invocations + 1
                         /\ invoked'.client = provider'.client
                         /\ invoked'.client.serial = constructed'
                    ELSE /\ constructed' = constructed
                         /\ invocations' = invocations
                         /\ ret'.kind = "raise"
          /\ provider.client # NoClient =>
                 /\ inits' = inits
                 /\ constructed' = constructed
                 /\ provider' = provider
                 /\ invocations' = invocations + 1
                 /\ invoked'.client = provider.client
          /\ invocations' # invocations =>
                 /\ invoked'.messages = call'.messages
                 /\ invoked'.kwargs = call'.kwargs
                 /\ invoked'.answer.kind = "response" =>
                        ret' = RetStr(invoked'.answer.content)
          /\ OnlyLazy' =>
                 /\ constructed' <= 1
                 /\ invocations' > 0 => constructed' = 1
                 /\ constructed' = 1 => provider'.client # NoClient]_vars

\* Chats, the last one with options: one initialize, one client, and an
\* invocation for every chat.
C20_Witness ==
    /\ call.op = "chat"
    /\ call.kwargs # <<>>
    /\ trace = [k \in 1..MaxCalls |-> "chat"]
    /\ inits = 1
    /\ constructed = 1
    /\ invocations = MaxCalls
    /\ ret.kind = "str"

\* A step of initialize called by the caller.
InitializeStep == call'.op = "initialize" /\ trace' # trace

Initialized == provider # NoProvider /\ provider.client # NoClient

\* C21: a provider only moves from Uninitialized to Initialized. Once the
\* client is set, no step of initialize, chat or get_model_info unsets it or
\* gives the caller another instance, and an initialize that returns on an
\* Initialized provider has replaced the client with one constructed by that
\* call: the next client of the instance, built from its fields.
C21_OnlyForward ==
    [][Initialized =>
          /\ Initialized'
          /\ [provider' EXCEPT !.client = NoClient]
                 = [provider EXCEPT !.client = NoClient]
          /\ (InitializeStep /\ ret' = RetNone) =>
                 /\ constructed' = constructed + 1
                 /\ provider'.client = ClientOf(provider, constructed')
                 /\ provider'.client # provider.client]_vars

\* initialize has succeeded on an Initialized provider, and a chat has
\* invoked the client of the second initialize.
C21_Witness ==
    /\ Initialized
    /\ provider.cls = "GeminiProvider"
    /\ trace = <<"initialize", "initialize", "chat">>
    /\ constructed = 2
    /\ provider.client.serial = 2
    /\ invoked.client = provider.client

\* A cloud provider whose API key is the empty text.
EmptyKey ==
    /\ provider # NoProvider
    /\ provider.cls \in {"OpenAIProvider", "GeminiProvider"}
    /\ provider.api_key = ""

\* C22: a cloud provider with an empty API key never becomes Initialized.
\* Whatever has been called on it, it has no client, no client has been
\* constructed for it and none has been invoked; and each initialize and
\* each chat on it has raised the missing-credential error of its class.
C22_EmptyKeyNeverInitialized ==
    EmptyKey =>
        /\ provider.client = NoClient
        /\ constructed = 0
        /\ invocations = 0
        /\ invoked = NotInvoked
        /\ call.op \in {"initialize", "chat"} =>
               /\ ret.kind = "raise"
               /\ ret.error = "ValueError"
               /\ ret.text = IF provider.cls = "OpenAIProvider"
                             THEN "OPENAI_API_KEY environment variable not set"
                             ELSE "GEMINI_API_KEY not set"

\* An OpenAI provider with an empty key: initialize, then two chats, each of
\* which has tried to initialize.
C22_Witness ==
    /\ EmptyKey
    /\ provider.cls = "OpenAIProvider"
    /\ trace = <<"initialize", "chat", "chat">>
    /\ inits = 3
    /\ call.op = "chat"
    /\ ret.kind = "raise"

\* The errors of a missing library and of a missing credential, and the
\* wrapping error: a RuntimeError whose message has the cause formatted in.
DependencyMissing(r) == r.error = "ImportError"
MissingCredential(r) == r.error = "ValueError"
BackendUnavailable(r) ==
    /\ r.error = "RuntimeError"
    /\ r.arg # <<>>
    /\ r.arg[Len(r.arg)] \in {"cause", "connection refused"}

\* A failing construction of the client reaches the caller of initialize
\* wrapped.
ConstructionFailuresWrapped ==
    (call.op = "initialize" /\ ret.kind = "raise") =>
        \/ DependencyMissing(ret)
        \/ MissingCredential(ret)
        \/ BackendUnavailable(ret)

\* C23: every failure of the client other than a missing library or a
\* missing credential, in the construction of initialize or in the invocation
\* of chat, reaches the caller as the wrapping error whose message contains
\* the cause, never as the exception the client raised.
C23_FailuresWrapped ==
    (call.op \in {"initialize", "chat"} /\ ret.kind = "raise") =>
        \/ DependencyMissing(ret)
        \/ MissingCredential(ret)
        \/ BackendUnavailable(ret)

\* A step of get_model_info.
ModelInfoStep == call'.op = "get_model_info" /\ trace' # trace

\* The fields the constructor set, whatever the client is.
Constructed(p) == [p EXCEPT !.client = NoClient]

\* C24: get_model_info returns exactly provider, model, base_url and type
\* for an Ollama instance, with type "local", and exactly provider, model and
\* type for an OpenAI or a Gemini instance, with type "cloud". The values are
\* those of construction: no call changes a field other than the client, and
\* the dict is made of the backend's name and those fields, so it is the same
\* with and without a client. The API key is no key and no value of it.
C24_ModelInfo ==
    [][/\ provider # NoProvider => Constructed(provider') = Constructed(provider)
       /\ ModelInfoStep =>
              /\ ret'.kind = "dict"
              /\ provider' = provider
              /\ LET d == ret'.val
                     p == provider
                 IN  /\ d.model = p.model
                     /\ p.cls = "OllamaProvider" =>
                            /\ DOMAIN d = {"provider", "model", "base_url", "type"}
                            /\ d.provider = ollama
                            /\ d.base_url = p.base_url
                            /\ d.type = "local"
                     /\ p.cls \in {"OpenAIProvider", "GeminiProvider"} =>
                            /\ DOMAIN d = {"provider", "model", "type"}
                            /\ d.provider = IF p.cls = "OpenAIProvider"
                                            THEN openai ELSE gemini
                            /\ d.type = "cloud"
                            /\ d.model # p.api_key
                            /\ d.type # p.api_key]_vars

\* get_model_info before and after a successful initialize of an OpenAI
\* provider.
C24_Witness ==
    /\ Initialized
    /\ provider.cls = "OpenAIProvider"
    /\ trace = <<"get_model_info", "initialize", "get_model_info">>
    /\ ret = RetDict([provider |-> openai, model |-> Given.openai_model,
                      type |-> "cloud"])

\* C29: an initialize that raises on an Initialized provider leaves the
\* instance as it was, with its previous client and no client constructed;
\* and the chat that follows does not run initialize, constructs nothing and
\* invokes that previous client.
C29_FailedReinitializeKeepsClient ==
    [][Initialized =>
          /\ (InitializeStep /\ ret'.kind = "raise") =>
                 /\ provider' = provider
                 /\ constructed' = constructed
          /\ (call.op = "initialize" /\ ret.kind = "raise" /\ ChatStep) =>
                 /\ provider' = provider
                 /\ inits' = inits
                 /\ constructed' = constructed
                 /\ invocations' = invocations + 1
                 /\ invoked'.client = provider.client]_vars

\* A chat that initialized lazily, an initialize that raised, and a chat that
\* invoked the client of the first chat and returned its answer.
C29_Witness ==
    /\ Initialized
    /\ trace = <<"chat", "initialize", "chat">>
    /\ inits = 2
    /\ constructed = 1
    /\ invocations = 2
    /\ invoked.client = provider.client
    /\ provider.client.serial = 1
    /\ ret.kind = "str"

-----------------------------------------------------------------------------
(* Properties of the PDF agent.                                            *)

\* The locations whose file a step has made or changed.
Changed ==
    {at \in DOMAIN files' : at \notin DOMAIN files \/ files'[at] # files[at]}

\* The pages of the input file of the call, a PDF file that exists.
InputIsPdf(a) ==
    /\ Resolve(a.input_file).found
    /\ Resolve(a.input_file).at \in DOMAIN files
    /\ files[Resolve(a.input_file).at].kind = "pdf"
InputPages(a) == files[Resolve(a.input_file).at].pages

ExtractPagesStep == call'.op = "extract_pages" /\ pdf_calls' # pdf_calls

\* C25: extract_pages on a PDF file of n pages writes the requested pages
\* that lie in 1..n, in the order requested and as often as requested, to one
\* output file, and reports their numbers in metadata extracted_pages; the
\* numbers out of range are skipped. When no requested number is in range,
\* the empty request included, it returns the failure 'No valid pages to
\* extract' and writes no file. It changes no other file, and none when it
\* fails.
C25_ExtractPages ==
    [][(ExtractPagesStep /\ InputIsPdf(call'.args)) =>
          LET a == call'.args
              source == InputPages(a)
              wanted == {k \in DOMAIN a.page_numbers :
                            a.page_numbers[k] \in 1..Len(source)}
              r == ret'
          IN  /\ wanted = {} =>
                     /\ ~r.success
                     /\ r.message.text = "No valid pages to extract"
                     /\ r.output_files = <<>>
              /\ ~r.success => files' = files
              /\ (wanted # {} /\ ~IsSome(a.output_file)) => r.success
              /\ r.success =>
                     LET numbers == r.metadata.extracted_pages
                         out == Resolve(r.output_files[1]).at
                     IN  /\ Len(r.output_files) = 1
                         /\ Len(numbers) = Cardinality(wanted)
                         /\ \E at \in [DOMAIN numbers -> wanted] :
                                /\ \A j, k \in DOMAIN numbers : j < k => at[j] < at[k]
                                /\ \A k \in DOMAIN numbers :
                                       numbers[k] = a.page_numbers[at[k]]
                         /\ out \in DOMAIN files'
                         /\ files'[out].kind = "pdf"
                         /\ Len(files'[out].pages) = Len(numbers)
                         /\ \A k \in DOMAIN numbers :
                                files'[out].pages[k] = source[numbers[k]]
                         /\ Changed \subseteq {out}]_vars

\* Pages 1 and 99 of the sample of three pages: page 1 is written, alone.
C25_Witness ==
    /\ call.op = "extract_pages"
    /\ call.args.input_file = sample_pdf_2
    /\ call.args.page_numbers = <<1, 99>>
    /\ ret.success
    /\ ret.metadata.extracted_pages = <<1>>
    /\ files[Resolve(ret.output_files[1]).at].pages = <<BlankPage("sample2", 1)>>

RotatePagesStep == call'.op = "rotate_pages" /\ pdf_calls' # pdf_calls

\* rotate_pages refuses every angle but 90, 180, 270 and their negatives,
\* and then writes nothing; and what it writes has the pages of the input in
\* their order, each as it was or rotated by the angle.
RotateKeepsPages ==
    [][(RotatePagesStep /\ InputIsPdf(call'.args)) =>
          LET a == call'.args
              source == InputPages(a)
              r == ret'
          IN  /\ a.rotation \notin {90, 180, 270, -90, -180, -270} =>
                     ~r.success /\ r.output_files = <<>> /\ files' = files
              /\ r.success =>
                     LET written == files'[Resolve(r.output_files[1]).at].pages
                     IN  /\ Len(written) = Len(source)
                         /\ \A k \in DOMAIN source :
                                \/ written[k] = source[k]
                                \/ written[k] = rotate(source[k], a.rotation)]_vars

\* C26: rotate_pages refuses every angle outside 90, 180, 270, -90, -180 and
\* -270 with a failure and writes no file. On success the output has all the
\* pages of the input in their order, the requested pages rotated by the
\* angle and the others as they were, and metadata pages_rotated is the
\* number of pages that were rotated.
C26_RotatePages ==
    [][(RotatePagesStep /\ InputIsPdf(call'.args)) =>
          LET a == call'.args
              source == InputPages(a)
              Requested(k) == ~IsSome(a.page_numbers) \/ In(k, a.page_numbers[1])
              r == ret'
          IN  /\ a.rotation \notin {90, 180, 270, -90, -180, -270} =>
                     ~r.success /\ r.output_files = <<>> /\ files' = files
              /\ r.success =>
                     LET written == files'[Resolve(r.output_files[1]).at].pages
                         turned == {k \in DOMAIN source : written[k] # source[k]}
                     IN  /\ Len(written) = Len(source)
                         /\ \A k \in DOMAIN source :
                                written[k] = IF Requested(k)
                                             THEN rotate(source[k], a.rotation)
                                             ELSE source[k]
                         /\ r.metadata.pages_rotated = Cardinality(turned)]_vars

\* A call on the agent.
PdfStep == pdf_calls' # pdf_calls

\* A location directly inside the workspace directory.
DirectlyInWorkspace(at) ==
    /\ Len(at) = Len(WorkspaceDir) + 1
    /\ SubSeq(at, 1, Len(WorkspaceDir)) = WorkspaceDir

\* The files written through an output_file argument, and those named after
\* the input file, lie directly inside the workspace.
OutputFileConfined ==
    [][(PdfStep /\ call'.op # "split_pdf") =>
          /\ \A at \in Changed : DirectlyInWorkspace(at)
          /\ \A k \in DOMAIN ret'.output_files :
                 DirectlyInWorkspace(Resolve(ret'.output_files[k]).at)]_vars

\* C30: every file written by merge_pdfs, split_pdf, extract_text,
\* extract_pages and rotate_pages lies directly inside the workspace
\* directory of the agent, whatever output file or output prefix is passed,
\* with or without directories and ".." in it.
C30_WorkspaceConfinement ==
    [][PdfStep =>
          /\ \A at \in Changed : DirectlyInWorkspace(at)
          /\ \A k \in DOMAIN ret'.output_files :
                 DirectlyInWorkspace(Resolve(ret'.output_files[k]).at)]_vars

====
